---- MODULE Spec2Model ----
(***************************************************************************)
(* A model of the Catrust core: the path rewrite engine (core/optimize.rs),*)
(* the row store (core/instance.rs), the migrations Delta and Sigma        *)
(* (core/migrate.rs), mapping composition and the in-memory evaluator      *)
(* (core/eval.rs, core/query.rs).                                          *)
(*                                                                         *)
(* Strings are kept as TLA+ strings where only equality is used (HashMap   *)
(* keys, edge names) and as sequences of byte values where the code orders *)
(* them (the printed form of a path in PathOptimizer::from_schema).        *)
(* Option<T> is [some |-> FALSE] or [some |-> TRUE, val |-> x].            *)
(***************************************************************************)
EXTENDS Integers, Sequences, FiniteSets, TLC

VARIABLES
    \* ---- Schema.path_equations and the PathOptimizer built from it
    path_equations,   \* Schema.path_equations : Vec<PathEquation>
    optimizer,        \* [state: "none" | "built" | "panicked", rules: Vec<RewriteRule>]
    \* ---- the locals of one PathOptimizer::optimize call
    opt_pc,           \* "idle" | "loop" | "done"
    original,
    current,
    rules_applied,
    changed,
    iteration,
    result,           \* the OptimizationResult returned
    \* ---- one EntityData and the calls made on it
    entity,           \* EntityData: [next_id, attribute_values, fk_values]
    ent_pc,           \* "ok" | "panicked" (arithmetic overflow in a checked build)
    ent_ops,          \* number of calls made
    ent_last,         \* the last call: its kind, arguments, result and the state before
    \* ---- migrations along mappings F : S -> T and G : T -> U
    mig_pc,           \* "idle" | "build" | "run" | "panicked"
    mig_on,           \* the schema the built instance is of: "S" | "T" | "U"
    mig_F,            \* the mapping F
    mig_G,            \* the mapping G
    mig_inst,         \* the instance built by insert and insert_with_id
    mig_rows,         \* number of rows inserted in it
    mig_sigma,        \* sigma(F, S, T, mig_inst)
    mig_trans,        \* the id_translation sigma built: <<source node, old id>> -> new id
    mig_mid,          \* delta(G, T, U, mig_inst)
    mig_delta_in,     \* the instance of T that delta(F, S, T, _) was given
    mig_delta,        \* its result
    mig_comp,         \* the outcome of compose_mappings(F, G, T)
    mig_direct,       \* delta(mig_comp.mapping, S, U, mig_inst)
    \* ---- evaluation of a query, as written and optimized
    ev_pc,            \* "idle" | "build" | "run"
    ev_eqs,           \* the path equations of the schema
    ev_query,         \* the query: the sequence of its blocks
    ev_inst,          \* the source instance
    ev_rows,          \* number of rows inserted in it
    ev_orders,        \* the iteration orders of the HashMaps read by the evaluator
    ev_plain,         \* the outcome of eval_query
    ev_opt,           \* the outcome of eval_query_optimized
    \* ---- validation of an instance against its schema
    val_pc,           \* "idle" | "build" | "done"
    val_eqs,          \* the path equations of the schema
    val_inst,         \* the instance built by insert
    val_rows,         \* number of rows inserted in it
    val_result,       \* the outcome of validate_instance
    \* ---- composition of two mappings
    cmp_F,            \* the mapping F
    cmp_G,            \* the mapping G
    cmp_out,          \* the outcome of compose_mappings(F, G, target schema of F)
    \* ---- single calls of functions
    cv_call,          \* the last call of compare_values: [lhs, op, rhs, out]
    ds_call,          \* the last call of distinct: [entity, row_ids, state, out]
    mv_call,          \* the last call of Mapping::validate: [mapping, out]
    \* ---- one Schema under the builder calls, then validated
    sch_pc,           \* "ok" | "panicked" (an assert! failed) | "validated"
    sch_cur,          \* the schema: [nodes, edges, path_equations]
    sch_ops,          \* number of builder calls made
    sch_result        \* the outcome of validate_schema

optVars == <<path_equations, optimizer, opt_pc, original, current,
             rules_applied, changed, iteration, result>>

entVars == <<entity, ent_pc, ent_ops, ent_last>>

migVars == <<mig_pc, mig_on, mig_F, mig_G, mig_inst, mig_rows, mig_sigma, mig_trans, mig_mid,
             mig_delta_in, mig_delta, mig_comp, mig_direct>>

evalVars == <<ev_pc, ev_eqs, ev_query, ev_inst, ev_rows, ev_orders, ev_plain, ev_opt>>

valVars == <<val_pc, val_eqs, val_inst, val_rows, val_result>>

cmpVars == <<cmp_F, cmp_G, cmp_out>>

callVars == <<cv_call, ds_call, mv_call>>

schVars == <<sch_pc, sch_cur, sch_ops, sch_result>>

vars == <<optVars, entVars, migVars, evalVars, valVars, cmpVars, callVars, schVars>>

\* what the actions of each part leave unchanged
notOpt == <<entVars, migVars, evalVars, valVars, cmpVars, callVars, schVars>>
notEnt == <<optVars, migVars, evalVars, valVars, cmpVars, callVars, schVars>>
notMig == <<optVars, entVars, evalVars, valVars, cmpVars, callVars, schVars>>
notEval == <<optVars, entVars, migVars, valVars, cmpVars, callVars, schVars>>
notVal == <<optVars, entVars, migVars, evalVars, cmpVars, callVars, schVars>>
notCmp == <<optVars, entVars, migVars, evalVars, valVars, callVars, schVars>>
notCall == <<optVars, entVars, migVars, evalVars, valVars, cmpVars, schVars>>
notSch == <<optVars, entVars, migVars, evalVars, valVars, cmpVars, callVars>>

(***************************************************************************)
(* Generic helpers                                                         *)
(***************************************************************************)
None == [some |-> FALSE]
Some(x) == [some |-> TRUE, val |-> x]

Min(S) == CHOOSE x \in S : \A y \in S : x <= y
Max(S) == CHOOSE x \in S : \A y \in S : x >= y

RECURSIVE SeqsUpTo(_, _)
SeqsUpTo(S, n) ==
    IF n = 0 THEN {<<>>}
    ELSE LET shorter == SeqsUpTo(S, n - 1)
         IN  shorter \cup {Append(s, x) : s \in {t \in shorter : Len(t) = n - 1}, x \in S}

\* the word w written n times
Rep(w, n) == [i \in 1..(n * Len(w)) |-> w[((i - 1) % Len(w)) + 1]]

(***************************************************************************)
(* Bounds of the model                                                     *)
(***************************************************************************)
MaxEqs == 2          \* path equations added to the schema
MaxPathLen == 3      \* edges of an enumerated input path
LongReps == 101      \* repetitions of a word in a long input path
RowIdBits == 3       \* width of RowId in the model (u64 in the source)
MaxEntOps == 3       \* calls made on the single EntityData
MaxRows == 2         \* rows inserted in the instance that is migrated
MaxSchemaOps == 4    \* builder calls made on the schema that is validated
MaxDistinctRows == 3 \* rows of the entity whose attribute values are collected

(***************************************************************************)
(* core/schema.rs : Path, PathEquation                                     *)
(***************************************************************************)
Nodes == {"A", "B"}
EdgeNames == {"f", "g", "h"}

Path(s, es) == [start |-> s, edges |-> es]
PathLen(p) == Len(p.edges)

\* PathEquation
Eq(l, r) == [lhs |-> l, rhs |-> r]

\* The bytes of the names used by the model (String's Ord is byte-wise)
NameBytes(n) ==
    CASE n = "A" -> <<65>>
      [] n = "B" -> <<66>>
      [] n = "f" -> <<102>>
      [] n = "g" -> <<103>>
      [] n = "h" -> <<104>>

RECURSIVE JoinDot(_)
JoinDot(es) ==
    IF Len(es) = 1 THEN NameBytes(es[1])
    ELSE NameBytes(es[1]) \o <<46>> \o JoinDot(Tail(es))

\* impl Display for Path: "id_<start>" or "<start>.<e1>.<e2>..."
PathDisplay(p) ==
    IF p.edges = <<>> THEN <<105, 100, 95>> \o NameBytes(p.start)
    ELSE NameBytes(p.start) \o <<46>> \o JoinDot(p.edges)

\* a > b on Strings: lexicographic on bytes, a proper prefix is smaller
RECURSIVE StrGt(_, _)
StrGt(a, b) ==
    IF a = <<>> THEN FALSE
    ELSE IF b = <<>> THEN TRUE
    ELSE IF Head(a) # Head(b) THEN Head(a) > Head(b)
    ELSE StrGt(Tail(a), Tail(b))

(***************************************************************************)
(* core/optimize.rs : PathOptimizer                                        *)
(***************************************************************************)
max_iterations == 100

Rule(l, r, n) == [lhs |-> l, rhs |-> r, name |-> n]

\* a rule oriented from the right-hand side of the equation to its left-hand side
BaseRule_Reversed(eq, i) == Rule(eq.rhs, eq.lhs, <<"eq", i>>)

\* a rule that keeps the listed order unless the right-hand side is longer
BaseRule_ListedOrder(eq, i) ==
    IF PathLen(eq.lhs) >= PathLen(eq.rhs) THEN Rule(eq.lhs, eq.rhs, <<"eq", i>>)
    ELSE Rule(eq.rhs, eq.lhs, <<"eq", i>>)

\* from_schema, the body of the loop over path_equations (i is 0-based)
BaseRule(eq, i) ==
    IF PathLen(eq.lhs) > PathLen(eq.rhs) THEN Rule(eq.lhs, eq.rhs, <<"eq", i>>)
    ELSE IF PathLen(eq.rhs) > PathLen(eq.lhs) THEN Rule(eq.rhs, eq.lhs, <<"eq", i>>)
    ELSE IF StrGt(PathDisplay(eq.lhs), PathDisplay(eq.rhs))
         THEN Rule(eq.lhs, eq.rhs, <<"eq", i>>)
         ELSE Rule(eq.rhs, eq.lhs, <<"eq", i>>)

BaseRules(eqs) == [k \in 1..Len(eqs) |-> BaseRule(eqs[k], k - 1)]

\* derive_transitive_rules: the guard in front of the slice comparison
DeriveGuard(r1, r2) ==
    /\ r1.rhs.start = r2.lhs.start
    /\ r1.rhs.edges # <<>>
    /\ r2.lhs.edges # <<>>
    /\ r1.rhs.edges[Len(r1.rhs.edges)] = r2.lhs.edges[1]

\* r2.lhs.edges[..r1.rhs.edges.len()] is out of range: the slice panics
DeriveSlicePanics(r1, r2) ==
    DeriveGuard(r1, r2) /\ Len(r1.rhs.edges) > Len(r2.lhs.edges)

\* the rule pushed for the pair (i, j), 1-based here, or nothing
DerivedFor(rules, i, j) ==
    LET r1 == rules[i]
        r2 == rules[j]
        n1 == Len(r1.rhs.edges)
    IN  IF i = j THEN <<>>
        ELSE IF ~DeriveGuard(r1, r2) THEN <<>>
        ELSE IF r1.rhs.edges # SubSeq(r2.lhs.edges, 1, n1) THEN <<>>
        ELSE LET suffix == SubSeq(r2.lhs.edges, n1 + 1, Len(r2.lhs.edges))
                 extended_lhs == Path(r1.lhs.start, r1.lhs.edges \o suffix)
             IN  IF PathLen(extended_lhs) > PathLen(r2.rhs)
                 THEN <<Rule(extended_lhs, r2.rhs, <<"derived", i - 1, j - 1>>)>>
                 ELSE <<>>

RECURSIVE DerivedFrom(_, _)
DerivedFrom(rules, k) ==
    LET n == Len(rules)
    IN  IF k >= n * n THEN <<>>
        ELSE DerivedFor(rules, (k \div n) + 1, (k % n) + 1) \o DerivedFrom(rules, k + 1)

derive_transitive_rules(rules) == DerivedFrom(rules, 0)

DerivePanics(rules) ==
    \E i, j \in 1..Len(rules) : i # j /\ DeriveSlicePanics(rules[i], rules[j])

from_schema(eqs) ==
    LET base == BaseRules(eqs)
    IN  IF DerivePanics(base)
        THEN [state |-> "panicked", rules |-> <<>>]
        ELSE [state |-> "built", rules |-> base \o derive_transitive_rules(base)]

\* apply_rule, lines 258-259: target[i..i+len] == pattern (i is 0-based)
MatchesAt(target, pattern, i) ==
    SubSeq(target, i + 1, i + Len(pattern)) = pattern

\* apply_rule, lines 258-274: the first index the loop matches at, or -1
FirstMatch(target, pattern) ==
    LET last == Len(target) - Len(pattern)
    IN  IF \E i \in 0..last : MatchesAt(target, pattern, i)
        THEN CHOOSE i \in 0..last :
                /\ MatchesAt(target, pattern, i)
                /\ \A j \in 0..(i - 1) : ~MatchesAt(target, pattern, j)
        ELSE -1

\* a rewrite that does not compare the start nodes of the path and the rule
apply_rule_AnyStart(path, rule) ==
    LET pattern == rule.lhs.edges
        target == path.edges
    IN  IF pattern = <<>> \/ Len(target) < Len(pattern) THEN None
        ELSE LET i == FirstMatch(target, pattern)
             IN  IF i < 0 THEN None
                 ELSE Some(Path(path.start,
                          SubSeq(target, 1, i) \o rule.rhs.edges
                          \o SubSeq(target, i + Len(pattern) + 1, Len(target))))

\* apply_rule: replace the first occurrence of rule.lhs.edges in path.edges
apply_rule(path, rule) ==
    IF path.start # rule.lhs.start THEN None
    ELSE LET pattern == rule.lhs.edges
             target == path.edges
         IN  IF pattern = <<>> \/ Len(target) < Len(pattern) THEN None
             ELSE LET i == FirstMatch(target, pattern)
                  IN  IF i < 0 THEN None
                      ELSE Some(Path(path.start,
                               SubSeq(target, 1, i) \o rule.rhs.edges
                               \o SubSeq(target, i + Len(pattern) + 1, Len(target))))

\* optimize, line 216: the test a candidate rewrite must pass
AcceptRewrite(new_path, cur) ==
    PathLen(new_path) < PathLen(cur) \/ new_path # cur

\* optimize, lines 214-223: the scan of the rule list from index k (1-based);
\* the index of the first rule whose rewrite is accepted, or 0
RECURSIVE FirstAccepted(_, _, _)
FirstAccepted(cur, rules, k) ==
    IF k > Len(rules) THEN 0
    ELSE LET np == apply_rule(cur, rules[k])
         IN  IF np.some /\ AcceptRewrite(np.val, cur) THEN k
             ELSE FirstAccepted(cur, rules, k + 1)

\* a loop that only stops at a fixed point (no pass cap)
LoopCond_NoCap(ch, it) == ch

\* optimize, line 210: the loop condition
LoopCond(ch, it) == ch /\ it < max_iterations

\* optimize, lines 226-230
JoinsEliminated(orig, cur) ==
    IF PathLen(orig) > PathLen(cur) THEN PathLen(orig) - PathLen(cur) ELSE 0

(***************************************************************************)
(* core/instance.rs : EntityData                                           *)
(*                                                                         *)
(* RowId is u64.  The model keeps the arithmetic of an unsigned integer of *)
(* RowIdBits bits: `+ 1` on the largest value overflows, which wraps in an *)
(* unchecked (release) build and panics in a checked (debug) build.        *)
(***************************************************************************)
RowIdModulus == 2 ^ RowIdBits
RowIdMax == RowIdModulus - 1
RowIds == 0..RowIdMax

\* HashMap<String, _> with no entry
EmptyMap == [k \in {} |-> 0]
MapGet(m, k) == IF k \in DOMAIN m THEN Some(m[k]) ELSE None
MapPut(m, k, v) == [x \in (DOMAIN m) \cup {k} |-> IF x = k THEN v ELSE m[x]]

\* EntityData::new
EntityNew == [next_id |-> 1, attribute_values |-> EmptyMap, fk_values |-> EmptyMap]

\* u64 `x + 1` in an unchecked build
WrapSucc(x) == (x + 1) % RowIdModulus
\* u64 `x + 1` overflows
SuccOverflows(x) == x + 1 > RowIdMax

\* EntityData::insert: [ed |-> the entity after the call, id |-> the RowId returned]
EntityInsert(ed, attrs, fks) ==
    LET id == ed.next_id
    IN  [ed |-> [next_id |-> WrapSucc(ed.next_id),
                 attribute_values |-> MapPut(ed.attribute_values, id, attrs),
                 fk_values |-> MapPut(ed.fk_values, id, fks)],
         id |-> id]

\* EntityData::insert_with_id
EntityInsertWithId(ed, id, attrs, fks) ==
    [next_id |-> IF id >= ed.next_id THEN WrapSucc(id) ELSE ed.next_id,
     attribute_values |-> MapPut(ed.attribute_values, id, attrs),
     fk_values |-> MapPut(ed.fk_values, id, fks)]

\* EntityData::row_ids, as a set (the Vec's order is the HashMap's)
EntityRowIds(ed) == DOMAIN ed.attribute_values
\* EntityData::len
EntityLen(ed) == Cardinality(DOMAIN ed.attribute_values)
\* EntityData::get_attr
EntityGetAttr(ed, row_id, attr_name) ==
    IF row_id \in DOMAIN ed.attribute_values
    THEN MapGet(ed.attribute_values[row_id], attr_name)
    ELSE None
\* EntityData::get_fk
EntityGetFk(ed, row_id, fk_name) ==
    IF row_id \in DOMAIN ed.fk_values
    THEN MapGet(ed.fk_values[row_id], fk_name)
    ELSE None

\* no call made yet on the entity
NoCall == [kind |-> "none", id |-> 0, before |-> EntityNew]

\* a fresh EntityData on which nothing was called
EntStart ==
    /\ entity = EntityNew
    /\ ent_pc = "ok"
    /\ ent_ops = 0
    /\ ent_last = NoCall

(***************************************************************************)
(* core/schema.rs : Schema, Edge; core/instance.rs : Instance             *)
(*                                                                         *)
(* A schema is [nodes, edges]; edges maps an edge name to                  *)
(* [kind |-> "fk" | "attr", source, target].  An instance is its `data`    *)
(* map: node name -> EntityData.                                           *)
(***************************************************************************)
\* Edge::fk
EdgeFk(source, target) == [kind |-> "fk", source |-> source, target |-> target]
\* Edge::attr (every attribute of the fixtures is a String)
EdgeAttr(source) == [kind |-> "attr", source |-> source, target |-> "String"]

\* Instance::new
InstanceNew(schema) == [n \in schema.nodes |-> EntityNew]

\* Instance::follow_path, from position i of fk_path
RECURSIVE FollowFrom(_, _, _, _, _, _)
FollowFrom(inst, current_entity, current_row, fk_path, schema, i) ==
    IF i > Len(fk_path) THEN Some(current_row)
    ELSE LET fk_name == fk_path[i]
         IN  IF fk_name \notin DOMAIN schema.edges THEN None
             ELSE LET edge == schema.edges[fk_name]
                  IN  IF edge.kind # "fk" THEN None
                      ELSE IF current_entity \notin DOMAIN inst THEN None
                      ELSE LET v == EntityGetFk(inst[current_entity], current_row, fk_name)
                           IN  IF ~v.some THEN None
                               ELSE FollowFrom(inst, edge.target, v.val, fk_path, schema, i + 1)

\* Instance::follow_path
follow_path(inst, start_entity, start_row, fk_path, schema) ==
    FollowFrom(inst, start_entity, start_row, fk_path, schema, 1)

(***************************************************************************)
(* core/mapping.rs : Mapping, EdgeMapping                                  *)
(***************************************************************************)
\* EdgeMapping::FkToPath
FkToPath(path) == [kind |-> "FkToPath", path |-> path, fk_path |-> <<>>, attr_name |-> ""]
\* EdgeMapping::AttrToPath
AttrToPath(fk_path, attr_name) ==
    [kind |-> "AttrToPath", path |-> Path("", <<>>), fk_path |-> fk_path, attr_name |-> attr_name]

\* Mapping: the schema names given to Mapping::new and the two maps filled by
\* map_node, map_fk, map_attr
Mapping(source, target, node_mapping, edge_mapping) ==
    [source_schema_name |-> source, target_schema_name |-> target,
     node_mapping |-> node_mapping, edge_mapping |-> edge_mapping]

(***************************************************************************)
(* core/migrate.rs : delta                                                 *)
(***************************************************************************)
\* the edges of the mapping that leave source_node in the source schema
EdgesFrom(mapping, source_schema, source_node) ==
    {e \in DOMAIN mapping.edge_mapping :
        /\ e \in DOMAIN source_schema.edges
        /\ source_schema.edges[e].source = source_node}

\* the entity at the end of fk_path, walking the schema from `from`
RECURSIVE EndEntity(_, _, _, _)
EndEntity(from, fk_path, schema, i) ==
    IF i > Len(fk_path) THEN from
    ELSE LET fk == fk_path[i]
         IN  IF fk \in DOMAIN schema.edges /\ schema.edges[fk].kind = "fk"
             THEN EndEntity(schema.edges[fk].target, fk_path, schema, i + 1)
             ELSE EndEntity(from, fk_path, schema, i + 1)

(***************************************************************************)
(* core/mapping.rs : is_complete, validate                                 *)
(***************************************************************************)
\* Mapping::is_complete: every node and every edge of the source is mapped
is_complete(m, source_schema) ==
    /\ \A node_name \in source_schema.nodes : node_name \in DOMAIN m.node_mapping
    /\ \A edge_name \in DOMAIN source_schema.edges : edge_name \in DOMAIN m.edge_mapping

MappingOk == [state |-> "ok", kind |-> "", about |-> ""]
MappingErr(kind, about) == [state |-> "err", kind |-> kind, about |-> about]

\* validate, the loop over node_mapping: the source nodes whose image is not
\* a node of the target
NodeFindings(m, target) ==
    {MappingErr("target_node", src_node) :
        src_node \in {n \in DOMAIN m.node_mapping : m.node_mapping[n] \notin target.nodes}}

\* validate, the check of the image path of an FK leaving src: its start is
\* compared with the image of src; where it arrives is not looked at (a TODO)
FkImageCheck(m, src, path) == path.start = m.node_mapping[src]

\* validate, the body of the loop over edge_mapping for one edge
EdgeFinding(m, source, target, edge_name) ==
    LET em == m.edge_mapping[edge_name]
    IN  IF edge_name \notin DOMAIN source.edges
        THEN {MappingErr("unknown_edge", edge_name)}
        ELSE LET source_edge == source.edges[edge_name]
             IN  IF source_edge.kind = "fk"
                 THEN IF source_edge.source \notin DOMAIN m.node_mapping
                      THEN {MappingErr("source_unmapped", edge_name)}
                      ELSE IF source_edge.target \notin DOMAIN m.node_mapping
                      THEN {MappingErr("target_unmapped", edge_name)}
                      ELSE IF em.kind = "FkToPath"
                      THEN IF ~FkImageCheck(m, source_edge.source, em.path)
                           THEN {MappingErr("start", edge_name)}
                           ELSE {}
                      ELSE {MappingErr("fk_as_attribute", edge_name)}
                 ELSE IF source_edge.source \notin DOMAIN m.node_mapping
                      THEN {MappingErr("source_unmapped", edge_name)}
                      ELSE IF em.kind = "AttrToPath"
                      THEN {}
                      ELSE {MappingErr("attribute_as_fk", edge_name)}

EdgeFindings(m, source, target) ==
    UNION {EdgeFinding(m, source, target, e) : e \in DOMAIN m.edge_mapping}

\* Mapping::validate: the results it can return.  Each loop returns at the
\* first offending entry in the iteration order of its HashMap, which can be
\* any offending entry.
validate(m, source, target) ==
    IF ~is_complete(m, source) THEN {MappingErr("incomplete", "")}
    ELSE IF NodeFindings(m, target) # {} THEN NodeFindings(m, target)
    ELSE IF EdgeFindings(m, source, target) # {} THEN EdgeFindings(m, source, target)
    ELSE {MappingOk}

(***************************************************************************)
(* core/migrate.rs : delta, the arms of the match and the loops            *)
(***************************************************************************)
\* a variant of DeltaFk that forgets an FK whose image is an identity path
DeltaFk_ForgetIdentity(em, target_schema, target_instance, target_node, row_id) ==
    IF em.path.edges = <<>> THEN None
    ELSE follow_path(target_instance, target_node, row_id, em.path.edges, target_schema)

\* a variant of DeltaFk that falls back on the row itself when the walk fails
DeltaFk_OrSelf(em, target_schema, target_instance, target_node, row_id) ==
    LET w == follow_path(target_instance, target_node, row_id, em.path.edges, target_schema)
    IN  IF w.some THEN w ELSE Some(row_id)

\* delta, FK arm: the RowId at the end of the image path, if any
DeltaFk(em, target_schema, target_instance, target_node, row_id) ==
    follow_path(target_instance, target_node, row_id, em.path.edges, target_schema)

\* delta, attribute arm: the value read at the end of the FK walk, if any
DeltaAttr(em, target_schema, target_instance, target_node, row_id) ==
    LET resolved_row == IF em.fk_path = <<>> THEN Some(row_id)
                        ELSE follow_path(target_instance, target_node, row_id,
                                         em.fk_path, target_schema)
        end_entity == EndEntity(target_node, em.fk_path, target_schema, 1)
    IN  IF resolved_row.some /\ end_entity \in DOMAIN target_instance
        THEN EntityGetAttr(target_instance[end_entity], resolved_row.val, em.attr_name)
        ELSE None

\* delta: new_fks of one row
DeltaNewFks(mapping, source_schema, target_schema, target_instance, source_node, target_node, row_id) ==
    LET cand == {e \in EdgesFrom(mapping, source_schema, source_node) :
                    /\ source_schema.edges[e].kind = "fk"
                    /\ mapping.edge_mapping[e].kind = "FkToPath"
                    /\ DeltaFk(mapping.edge_mapping[e], target_schema,
                               target_instance, target_node, row_id).some}
    IN  [e \in cand |-> DeltaFk(mapping.edge_mapping[e], target_schema,
                                target_instance, target_node, row_id).val]

\* delta: new_attrs of one row
DeltaNewAttrs(mapping, source_schema, target_schema, target_instance, source_node, target_node, row_id) ==
    LET cand == {e \in EdgesFrom(mapping, source_schema, source_node) :
                    /\ source_schema.edges[e].kind = "attr"
                    /\ mapping.edge_mapping[e].kind = "AttrToPath"
                    /\ DeltaAttr(mapping.edge_mapping[e], target_schema,
                                 target_instance, target_node, row_id).some}
    IN  [e \in cand |-> DeltaAttr(mapping.edge_mapping[e], target_schema,
                                  target_instance, target_node, row_id).val]

\* a variant of DeltaCopyRow that lets the entity allocate the RowId
DeltaCopyRow_FreshId(result_data, row_id, new_attrs, new_fks) ==
    EntityInsert(result_data, new_attrs, new_fks).ed

\* delta: result_data.insert_with_id(row_id, new_attrs, new_fks)
DeltaCopyRow(result_data, row_id, new_attrs, new_fks) ==
    EntityInsertWithId(result_data, row_id, new_attrs, new_fks)

\* delta: the loop over target_data.row_ids() for one source node; row_ids is
\* the Vec returned by row_ids(), in the order of the HashMap
RECURSIVE DeltaRows(_, _, _, _, _, _, _, _)
DeltaRows(result_data, row_ids, mapping, source_schema, target_schema, target_instance, source_node, target_node) ==
    IF row_ids = <<>> THEN result_data
    ELSE DeltaRows(
             DeltaCopyRow(result_data, Head(row_ids),
                 DeltaNewAttrs(mapping, source_schema, target_schema,
                               target_instance, source_node, target_node, Head(row_ids)),
                 DeltaNewFks(mapping, source_schema, target_schema,
                             target_instance, source_node, target_node, Head(row_ids))),
             Tail(row_ids), mapping, source_schema, target_schema,
             target_instance, source_node, target_node)

\* delta: result.data.get_mut(source_node).unwrap() panics: node_mapping has a
\* node that the source schema lacks and whose image has a table in the target
DeltaUnwrapPanics(mapping, source_schema, target_instance) ==
    \E source_node \in DOMAIN mapping.node_mapping :
        /\ mapping.node_mapping[source_node] \in DOMAIN target_instance
        /\ source_node \notin source_schema.nodes

\* delta: insert_with_id(row_id, ..) computes row_id + 1, which overflows in
\* a checked build, for a row that is copied
DeltaOverflows(mapping, target_instance) ==
    \E source_node \in DOMAIN mapping.node_mapping :
        /\ mapping.node_mapping[source_node] \in DOMAIN target_instance
        /\ \E row_id \in EntityRowIds(target_instance[mapping.node_mapping[source_node]]) :
              SuccOverflows(row_id)

\* delta(mapping, source_schema, target_schema, target_instance): [state,
\* instance], state "ok" | "panicked".  row_order[n] is the order in which
\* row_ids() lists the rows of the target entity n; checked tells whether the
\* build checks arithmetic overflow.
delta(mapping, source_schema, target_schema, target_instance, row_order, checked) ==
    IF \/ DeltaUnwrapPanics(mapping, source_schema, target_instance)
       \/ checked /\ DeltaOverflows(mapping, target_instance)
    THEN [state |-> "panicked", instance |-> EmptyMap]
    ELSE [state |-> "ok",
          instance |->
            [source_node \in source_schema.nodes |->
                IF /\ source_node \in DOMAIN mapping.node_mapping
                   /\ mapping.node_mapping[source_node] \in DOMAIN target_instance
                THEN DeltaRows(EntityNew, row_order[mapping.node_mapping[source_node]],
                               mapping, source_schema, target_schema, target_instance,
                               source_node, mapping.node_mapping[source_node])
                ELSE EntityNew]]

(***************************************************************************)
(* core/migrate.rs : sigma                                                 *)
(*                                                                         *)
(* sigma iterates three HashMaps, whose order is unspecified:              *)
(* mapping.node_mapping (node_order), each entity's rows (row_order) and   *)
(* mapping.edge_mapping (edge_order).  The orders are parameters.          *)
(***************************************************************************)
\* all the orders in which a HashMap with key set S can be iterated
Orders(S) ==
    {o \in [1..Cardinality(S) -> S] : \A i, j \in DOMAIN o : o[i] = o[j] => i = j}

MapExtend(m, n) == [k \in (DOMAIN m) \cup (DOMAIN n) |-> IF k \in DOMAIN n THEN n[k] ELSE m[k]]

\* sigma: (source_node, old_row_id) in the order phase 1 reaches them for target_node
RECURSIVE SigmaPairs(_, _, _, _, _, _)
SigmaPairs(mapping, source_instance, target_node, node_order, row_order, i) ==
    IF i > Len(node_order) THEN <<>>
    ELSE LET source_node == node_order[i]
             rest == SigmaPairs(mapping, source_instance, target_node,
                                node_order, row_order, i + 1)
         IN  IF /\ mapping.node_mapping[source_node] = target_node
                /\ source_node \in DOMAIN source_instance
             THEN [k \in 1..Len(row_order[source_node]) |->
                      <<source_node, row_order[source_node][k]>>] \o rest
             ELSE rest

\* sigma, phase 1: new_attrs of one source row
RECURSIVE SigmaNewAttrs(_, _, _, _, _, _, _, _)
SigmaNewAttrs(new_attrs, mapping, source_schema, source_data, source_node, old_row_id, edge_order, i) ==
    IF i > Len(edge_order) THEN new_attrs
    ELSE LET edge_name == edge_order[i]
             em == mapping.edge_mapping[edge_name]
             value == EntityGetAttr(source_data, old_row_id, edge_name)
             hit == /\ edge_name \in EdgesFrom(mapping, source_schema, source_node)
                    /\ source_schema.edges[edge_name].kind = "attr"
                    /\ em.kind = "AttrToPath"
                    /\ em.fk_path = <<>>
                    /\ value.some
         IN  SigmaNewAttrs(IF hit THEN MapPut(new_attrs, em.attr_name, value.val)
                                  ELSE new_attrs,
                           mapping, source_schema, source_data, source_node,
                           old_row_id, edge_order, i + 1)

\* a variant of SigmaCopyRow that keeps the source row's RowId
SigmaCopyRow_KeepId(target_data, old_row_id, new_attrs) ==
    [ed |-> EntityInsertWithId(target_data, old_row_id, new_attrs, EmptyMap),
     id |-> old_row_id]

\* sigma, phase 1: result.data[target_node].insert(new_attrs, HashMap::new())
SigmaCopyRow(target_data, old_row_id, new_attrs) ==
    EntityInsert(target_data, new_attrs, EmptyMap)

\* sigma, phase 1 for one target node: [ed, id_translation]
RECURSIVE SigmaPhase1(_, _, _, _, _, _, _)
SigmaPhase1(acc, pairs, k, mapping, source_schema, source_instance, edge_order) ==
    IF k > Len(pairs) THEN acc
    ELSE LET source_node == pairs[k][1]
             old_row_id == pairs[k][2]
             new_attrs == SigmaNewAttrs(EmptyMap, mapping, source_schema,
                                        source_instance[source_node], source_node,
                                        old_row_id, edge_order, 1)
             r == SigmaCopyRow(acc.ed, old_row_id, new_attrs)
         IN  SigmaPhase1([ed |-> r.ed,
                          id_translation |-> MapPut(acc.id_translation, pairs[k], r.id)],
                         pairs, k + 1, mapping, source_schema, source_instance, edge_order)

\* a variant of SigmaTargetRow that keeps the RowId the FK had in the source
SigmaTargetRow_Old(id_translation, fk_target, old_target_row) == old_target_row

\* sigma, phase 2: new_target_row, the translation of the FK's old target
SigmaTargetRow(id_translation, fk_target, old_target_row) ==
    id_translation[<<fk_target, old_target_row>>]

\* sigma, phase 2: new_fks of one source row
RECURSIVE SigmaNewFks(_, _, _, _, _, _, _, _, _)
SigmaNewFks(new_fks, mapping, source_schema, source_data, source_node, old_row_id, id_translation, edge_order, i) ==
    IF i > Len(edge_order) THEN new_fks
    ELSE LET edge_name == edge_order[i]
             em == mapping.edge_mapping[edge_name]
             old_target_row == EntityGetFk(source_data, old_row_id, edge_name)
             hit == /\ edge_name \in EdgesFrom(mapping, source_schema, source_node)
                    /\ source_schema.edges[edge_name].kind = "fk"
                    /\ em.kind = "FkToPath"
                    /\ old_target_row.some
                    /\ <<source_schema.edges[edge_name].target, old_target_row.val>>
                           \in DOMAIN id_translation
                    /\ Len(em.path.edges) = 1
         IN  SigmaNewFks(IF hit
                         THEN MapPut(new_fks, em.path.edges[1],
                                     SigmaTargetRow(id_translation,
                                                    source_schema.edges[edge_name].target,
                                                    old_target_row.val))
                         ELSE new_fks,
                         mapping, source_schema, source_data, source_node,
                         old_row_id, id_translation, edge_order, i + 1)

\* sigma, phase 1: result.data.get_mut(target_node).unwrap() panics: a source
\* node that has a row is sent to a node the target schema lacks
SigmaUnwrapPanics(mapping, target_schema, source_instance) ==
    \E source_node \in DOMAIN mapping.node_mapping :
        /\ mapping.node_mapping[source_node] \notin target_schema.nodes
        /\ source_node \in DOMAIN source_instance
        /\ EntityRowIds(source_instance[source_node]) # {}

\* sigma, phase 1 for every image of node_mapping: [state, nodes], state
\* "ok" | "panicked"; nodes maps each target node to [ed, id_translation]
SigmaCopyNodes(mapping, source_schema, target_schema, source_instance, node_order, row_order, edge_order) ==
    IF SigmaUnwrapPanics(mapping, target_schema, source_instance)
    THEN [state |-> "panicked", nodes |-> EmptyMap]
    ELSE [state |-> "ok",
          nodes |->
            [target_node \in target_schema.nodes |->
                SigmaPhase1([ed |-> EntityNew, id_translation |-> EmptyMap],
                            SigmaPairs(mapping, source_instance, target_node,
                                       node_order, row_order, 1),
                            1, mapping, source_schema, source_instance, edge_order)]]

\* sigma: id_translation after phase 1
SigmaTranslation(phase1, mapping, target_schema) ==
    LET translated == UNION {DOMAIN phase1[t].id_translation : t \in target_schema.nodes}
    IN  [pr \in translated |-> phase1[mapping.node_mapping[pr[1]]].id_translation[pr]]

\* sigma, phase 2, given the outcome of phase 1
SigmaResolveFks(phase1, id_translation, mapping, source_schema, target_schema, source_instance, edge_order) ==
    LET SourceOf(target_node, new_row_id) ==
            {pr \in DOMAIN id_translation : /\ mapping.node_mapping[pr[1]] = target_node
                                            /\ id_translation[pr] = new_row_id}
        Phase2Fks(target_node, new_row_id, existing_fks) ==
            LET src == SourceOf(target_node, new_row_id)
            IN  IF src = {} THEN existing_fks
                ELSE LET pr == CHOOSE x \in src : TRUE
                     IN  MapExtend(existing_fks,
                             SigmaNewFks(EmptyMap, mapping, source_schema,
                                         source_instance[pr[1]], pr[1], pr[2],
                                         id_translation, edge_order, 1))
    IN  [target_node \in target_schema.nodes |->
            [phase1[target_node].ed EXCEPT
                !.fk_values = [new_row_id \in DOMAIN @ |->
                                  Phase2Fks(target_node, new_row_id, @[new_row_id])]]]

\* sigma, given the outcome of phase 1: [state, instance, id_translation]
SigmaFrom(phase1, mapping, source_schema, target_schema, source_instance, edge_order) ==
    IF phase1.state = "panicked"
    THEN [state |-> "panicked", instance |-> EmptyMap, id_translation |-> EmptyMap]
    ELSE [state |-> "ok",
          instance |-> SigmaResolveFks(phase1.nodes,
                                       SigmaTranslation(phase1.nodes, mapping, target_schema),
                                       mapping, source_schema, target_schema,
                                       source_instance, edge_order),
          id_translation |-> SigmaTranslation(phase1.nodes, mapping, target_schema)]

\* sigma(mapping, source_schema, target_schema, source_instance), with the
\* id_translation it built: [state, instance, id_translation]
sigma_traced(mapping, source_schema, target_schema, source_instance, node_order, row_order, edge_order) ==
    SigmaFrom(SigmaCopyNodes(mapping, source_schema, target_schema, source_instance,
                             node_order, row_order, edge_order),
              mapping, source_schema, target_schema, source_instance, edge_order)

\* sigma(mapping, source_schema, target_schema, source_instance): [state,
\* instance], state "ok" | "panicked"
sigma(mapping, source_schema, target_schema, source_instance, node_order, row_order, edge_order) ==
    [state |-> sigma_traced(mapping, source_schema, target_schema, source_instance,
                            node_order, row_order, edge_order).state,
     instance |-> sigma_traced(mapping, source_schema, target_schema, source_instance,
                               node_order, row_order, edge_order).instance]

(***************************************************************************)
(* core/optimize.rs : compose_mappings                                     *)
(***************************************************************************)
\* a variant of ComposeEdges that appends the images in the reverse order
RECURSIVE ComposeEdges_Reversed(_, _, _)
ComposeEdges_Reversed(g, mid_edges, i) ==
    IF i > Len(mid_edges) THEN [state |-> "ok", edges |-> <<>>]
    ELSE LET mid_edge == mid_edges[i]
         IN  IF mid_edge \notin DOMAIN g.edge_mapping THEN [state |-> "err", edges |-> <<>>]
             ELSE IF g.edge_mapping[mid_edge].kind # "FkToPath"
                  THEN [state |-> "err", edges |-> <<>>]
             ELSE LET rest == ComposeEdges_Reversed(g, mid_edges, i + 1)
                  IN  IF rest.state = "err" THEN rest
                      ELSE [state |-> "ok",
                            edges |-> rest.edges \o g.edge_mapping[mid_edge].path.edges]

\* the image by G of a sequence of edges of T: [state, edges]; "err" when an
\* edge is not mapped by G to an FK path
RECURSIVE ComposeEdges(_, _, _)
ComposeEdges(g, mid_edges, i) ==
    IF i > Len(mid_edges) THEN [state |-> "ok", edges |-> <<>>]
    ELSE LET mid_edge == mid_edges[i]
         IN  IF mid_edge \notin DOMAIN g.edge_mapping THEN [state |-> "err", edges |-> <<>>]
             ELSE IF g.edge_mapping[mid_edge].kind # "FkToPath"
                  THEN [state |-> "err", edges |-> <<>>]
             ELSE LET rest == ComposeEdges(g, mid_edges, i + 1)
                  IN  IF rest.state = "err" THEN rest
                      ELSE [state |-> "ok",
                            edges |-> g.edge_mapping[mid_edge].path.edges \o rest.edges]

\* compose_mappings: start_in_u of the composed path: [state, start]; "panicked"
\* when the fallback indexes f_path.edges[0] of an empty path
ComposeStart(f, g, target_of_f, composed_nodes, src_edge, f_path) ==
    IF f_path.start \in DOMAIN composed_nodes
    THEN [state |-> "ok", start |-> composed_nodes[f_path.start]]
    ELSE IF /\ src_edge \in DOMAIN f.node_mapping
            /\ f.node_mapping[src_edge] \in DOMAIN g.node_mapping
    THEN [state |-> "ok", start |-> g.node_mapping[f.node_mapping[src_edge]]]
    ELSE IF f_path.edges = <<>> THEN [state |-> "panicked", start |-> ""]
    ELSE LET src_node == IF f_path.edges[1] \in DOMAIN target_of_f.edges
                         THEN target_of_f.edges[f_path.edges[1]].source
                         ELSE ""
         IN  [state |-> "ok",
              start |-> IF src_node \in DOMAIN g.node_mapping
                        THEN g.node_mapping[src_node]
                        ELSE f_path.start]

\* compose_mappings: the image of one edge of S: [state, em]
ComposeEdge(f, g, target_of_f, composed_nodes, src_edge) ==
    LET f_mapping == f.edge_mapping[src_edge]
        bad(st) == [state |-> st, em |-> FkToPath(Path("", <<>>))]
    IN  IF f_mapping.kind = "FkToPath"
        THEN LET composed_edges == ComposeEdges(g, f_mapping.path.edges, 1)
                 start_in_u == ComposeStart(f, g, target_of_f, composed_nodes,
                                            src_edge, f_mapping.path)
             IN  IF composed_edges.state = "err" THEN bad("err")
                 ELSE IF start_in_u.state = "panicked" THEN bad("panicked")
                 ELSE [state |-> "ok",
                       em |-> FkToPath(Path(start_in_u.start, composed_edges.edges))]
        ELSE LET composed_fk_path == ComposeEdges(g, f_mapping.fk_path, 1)
             IN  IF composed_fk_path.state = "err" THEN bad("err")
                 ELSE IF f_mapping.attr_name \notin DOMAIN g.edge_mapping THEN bad("err")
                 ELSE IF g.edge_mapping[f_mapping.attr_name].kind # "AttrToPath"
                      THEN bad("err")
                 ELSE [state |-> "ok",
                       em |-> AttrToPath(
                                composed_fk_path.edges
                                    \o g.edge_mapping[f_mapping.attr_name].fk_path,
                                g.edge_mapping[f_mapping.attr_name].attr_name)]

\* compose_mappings(f, g, target_of_f): the set of outcomes [state, mapping],
\* state "ok" | "err" | "panicked".  The edges of F are visited in the
\* HashMap's order, so when one edge returns Err and another panics either
\* can come first.
compose_mappings(f, g, target_of_f) ==
    LET no == Mapping(f.source_schema_name, g.target_schema_name, EmptyMap, EmptyMap)
        fail(st) == [state |-> st, mapping |-> no]
    IN  IF f.target_schema_name # g.source_schema_name THEN {fail("err")}
        ELSE IF \E n \in DOMAIN f.node_mapping : f.node_mapping[n] \notin DOMAIN g.node_mapping
        THEN {fail("err")}
        ELSE LET composed_nodes == [n \in DOMAIN f.node_mapping |->
                                       g.node_mapping[f.node_mapping[n]]]
                 image == [e \in DOMAIN f.edge_mapping |->
                              ComposeEdge(f, g, target_of_f, composed_nodes, e)]
                 states == {image[e].state : e \in DOMAIN image}
             IN  IF states \subseteq {"ok"}
                 THEN {[state |-> "ok",
                        mapping |-> Mapping(f.source_schema_name, g.target_schema_name,
                                            composed_nodes,
                                            [e \in DOMAIN image |-> image[e].em])]}
                 ELSE {fail(st) : st \in states \ {"ok"}}

(***************************************************************************)
(* Schemas and mappings the migrations are run on                          *)
(*                                                                         *)
(*   S : A --e--> C,            attributes a : A, c : C                    *)
(*   S2: A --e--> C, A --d--> A, no attributes                             *)
(*   T : P --m--> Q --n--> Q,   attributes tp : P, tq : Q                  *)
(*   U : X --u--> Y --w--> Y,   attributes ux : X, uy : Y                  *)
(***************************************************************************)
Schema(nodes, edges) == [nodes |-> nodes, edges |-> edges]

SchemaS == Schema({"A", "C"},
                  [k \in {"e", "a", "c"} |->
                      CASE k = "e" -> EdgeFk("A", "C")
                        [] k = "a" -> EdgeAttr("A")
                        [] k = "c" -> EdgeAttr("C")])
SchemaS2 == Schema({"A", "C"},
                   [k \in {"e", "d"} |->
                       IF k = "e" THEN EdgeFk("A", "C") ELSE EdgeFk("A", "A")])
SchemaT == Schema({"P", "Q"},
                  [k \in {"m", "n", "tp", "tq"} |->
                      CASE k = "m" -> EdgeFk("P", "Q")
                        [] k = "n" -> EdgeFk("Q", "Q")
                        [] k = "tp" -> EdgeAttr("P")
                        [] k = "tq" -> EdgeAttr("Q")])
SchemaU == Schema({"X", "Y"},
                  [k \in {"u", "w", "ux", "uy"} |->
                      CASE k = "u" -> EdgeFk("X", "Y")
                        [] k = "w" -> EdgeFk("Y", "Y")
                        [] k = "ux" -> EdgeAttr("X")
                        [] k = "uy" -> EdgeAttr("Y")])

\* W : C --r--> A, attributes wc : C, wa : A (the node names of S, the FK
\* running the other way)
SchemaW == Schema({"A", "C"},
                  [k \in {"r", "wc", "wa"} |->
                      CASE k = "r" -> EdgeFk("C", "A")
                        [] k = "wc" -> EdgeAttr("C")
                        [] k = "wa" -> EdgeAttr("A")])

SchemaNamed(name) ==
    CASE name = "S" -> SchemaS
      [] name = "S2" -> SchemaS2
      [] name = "T" -> SchemaT
      [] name = "U" -> SchemaU
      [] name = "W" -> SchemaW

\* a node map A |-> pa, C |-> pc and the images of e, a, c
MapS(pa, pc, fe, fa, fc) ==
    Mapping("S", "T",
            [k \in {"A", "C"} |-> IF k = "A" THEN pa ELSE pc],
            [k \in {"e", "a", "c"} |->
                CASE k = "e" -> fe [] k = "a" -> fa [] k = "c" -> fc])

\* pure renaming: A |-> P, C |-> Q, e |-> m, a |-> tp, c |-> tq
F_rename == MapS("P", "Q", FkToPath(Path("P", <<"m">>)),
                 AttrToPath(<<>>, "tp"), AttrToPath(<<>>, "tq"))
\* e goes to a path of two FKs, a is read at the end of an FK
F_path == MapS("P", "Q", FkToPath(Path("P", <<"m", "n">>)),
               AttrToPath(<<"m">>, "tq"), AttrToPath(<<>>, "tq"))
\* both nodes go to Q (not injective on nodes)
F_merge == MapS("Q", "Q", FkToPath(Path("Q", <<"n">>)),
                AttrToPath(<<>>, "tq"), AttrToPath(<<>>, "tq"))
\* e goes to the identity path of Q
F_ident == MapS("Q", "Q", FkToPath(Path("Q", <<>>)),
                AttrToPath(<<>>, "tq"), AttrToPath(<<"n">>, "tq"))
\* images that do not leave the image of the edge's source: n and tq leave Q, not P
F_illtyped == MapS("P", "Q", FkToPath(Path("P", <<"n">>)),
                   AttrToPath(<<>>, "tq"), AttrToPath(<<>>, "tq"))

FChoices == {F_rename, F_path, F_merge, F_ident, F_illtyped}

\* S2 to T: both nodes go to Q and both FKs of A to n
F_two_fks ==
    Mapping("S2", "T", F_merge.node_mapping,
            [k \in {"e", "d"} |-> FkToPath(Path("Q", <<"n">>))])

\* F_rename with one more entry in node_mapping, for a node B that S lacks
F_extra_node ==
    Mapping("S", "T",
            [k \in {"A", "B", "C"} |-> IF k = "A" THEN "P" ELSE "Q"],
            F_rename.edge_mapping)
\* A goes to Z, a node that T lacks
F_no_node == MapS("Z", "Q", FkToPath(Path("Z", <<"n">>)),
                  AttrToPath(<<>>, "tq"), AttrToPath(<<>>, "tq"))

\* a mapping with source name src, node map P |-> gp, Q |-> gq and the images
\* of m, n, tp, tq
MapT(src, gp, gq, gm, gn, gtp, gtq) ==
    Mapping(src, "U",
            [k \in {"P", "Q"} |-> IF k = "P" THEN gp ELSE gq],
            [k \in {"m", "n", "tp", "tq"} |->
                CASE k = "m" -> gm [] k = "n" -> gn [] k = "tp" -> gtp [] k = "tq" -> gtq])

\* pure renaming
G_rename == MapT("T", "X", "Y", FkToPath(Path("X", <<"u">>)), FkToPath(Path("Y", <<"w">>)),
                 AttrToPath(<<>>, "ux"), AttrToPath(<<>>, "uy"))
\* the loop n goes to the identity path of Y
G_ident == MapT("T", "X", "Y", FkToPath(Path("X", <<"u">>)), FkToPath(Path("Y", <<>>)),
                AttrToPath(<<>>, "ux"), AttrToPath(<<>>, "uy"))
\* both nodes go to Y; tp is read at the end of w
G_merge == MapT("T", "Y", "Y", FkToPath(Path("Y", <<"w">>)), FkToPath(Path("Y", <<"w", "w">>)),
                AttrToPath(<<"w">>, "uy"), AttrToPath(<<>>, "uy"))
\* n is mapped as an attribute: composing a path through n is an error
G_attr == MapT("T", "X", "Y", FkToPath(Path("X", <<"u">>)), AttrToPath(<<>>, "uy"),
               AttrToPath(<<>>, "ux"), AttrToPath(<<>>, "uy"))
\* both nodes go to X, but the images of m and n end at Y
G_illtyped == MapT("T", "X", "X", FkToPath(Path("X", <<"u">>)), FkToPath(Path("X", <<"u">>)),
                   AttrToPath(<<>>, "ux"), AttrToPath(<<>>, "ux"))
\* a mapping declared on another source schema
G_other == MapT("T2", "X", "Y", FkToPath(Path("X", <<"u">>)), FkToPath(Path("Y", <<"w">>)),
                AttrToPath(<<>>, "ux"), AttrToPath(<<>>, "uy"))
\* Q is not mapped
G_partial ==
    Mapping("T", "U", [k \in {"P"} |-> "X"],
            [k \in {"m", "tp"} |->
                IF k = "m" THEN FkToPath(Path("X", <<"u">>)) ELSE AttrToPath(<<>>, "ux")])

GChoices == {G_rename, G_ident, G_merge, G_illtyped, G_attr, G_other, G_partial}

\* mappings from S to W and from W to U: W has the node names of S
\* A |-> C, C |-> A, e |-> C.r, a |-> wc, c |-> wa
F_swap ==
    Mapping("S", "W",
            [k \in {"A", "C"} |-> IF k = "A" THEN "C" ELSE "A"],
            [k \in {"e", "a", "c"} |->
                CASE k = "e" -> FkToPath(Path("C", <<"r">>))
                  [] k = "a" -> AttrToPath(<<>>, "wc")
                  [] k = "c" -> AttrToPath(<<>>, "wa")])
\* both nodes go to A, e to the identity path of A
F_swap_ident ==
    Mapping("S", "W",
            [k \in {"A", "C"} |-> "A"],
            [k \in {"e", "a", "c"} |->
                CASE k = "e" -> FkToPath(Path("A", <<>>))
                  [] k = "a" -> AttrToPath(<<>>, "wa")
                  [] k = "c" -> AttrToPath(<<>>, "wa")])
\* C |-> X, A |-> Y, r |-> X.u, wc |-> ux, wa |-> uy
G_from_W ==
    Mapping("W", "U",
            [k \in {"A", "C"} |-> IF k = "C" THEN "X" ELSE "Y"],
            [k \in {"r", "wc", "wa"} |->
                CASE k = "r" -> FkToPath(Path("X", <<"u">>))
                  [] k = "wc" -> AttrToPath(<<>>, "ux")
                  [] k = "wa" -> AttrToPath(<<>>, "uy")])
\* C |-> X, A |-> Y, r |-> the two-FK path X.u.w
G_from_W_path ==
    Mapping("W", "U",
            [k \in {"A", "C"} |-> IF k = "C" THEN "X" ELSE "Y"],
            [k \in {"r", "wc", "wa"} |->
                CASE k = "r" -> FkToPath(Path("X", <<"u", "w">>))
                  [] k = "wc" -> AttrToPath(<<>>, "ux")
                  [] k = "wa" -> AttrToPath(<<"w">>, "uy")])

CmpFChoices == FChoices \cup {F_swap, F_swap_ident}
CmpGChoices == GChoices \cup {G_from_W, G_from_W_path}

NoMapping == Mapping("", "", EmptyMap, EmptyMap)
NoInstance == [n \in {} |-> EntityNew]
NoCompose == [state |-> "none", mapping |-> NoMapping]

\* the attribute values and FK values rows are inserted with
AttrValues == {"x", "y"}
FkValues == {1, 2}

\* the maps from a subset of keys to vals
PartialMaps(keys, vals) == UNION {[ks -> vals] : ks \in SUBSET keys}

EdgesOfKind(schema, node, kind) ==
    {e \in DOMAIN schema.edges :
        schema.edges[e].source = node /\ schema.edges[e].kind = kind}

\* no mapping chosen, nothing composed
CmpStart ==
    /\ cmp_F = NoMapping
    /\ cmp_G = NoMapping
    /\ cmp_out = NoCompose

\* nothing chosen, nothing migrated
MigStart ==
    /\ mig_pc = "idle"
    /\ mig_on = "none"
    /\ mig_F = NoMapping
    /\ mig_G = NoMapping
    /\ mig_inst = NoInstance
    /\ mig_rows = 0
    /\ mig_sigma = NoInstance
    /\ mig_trans = EmptyMap
    /\ mig_mid = NoInstance
    /\ mig_delta_in = NoInstance
    /\ mig_delta = NoInstance
    /\ mig_comp = NoCompose
    /\ mig_direct = NoInstance

(***************************************************************************)
(* core/optimize.rs : optimize_path, the loop of optimize run to its end   *)
(***************************************************************************)
RECURSIVE OptimizeLoop(_, _, _, _)
\* the body of one pass, k being the first rule whose rewrite is accepted
OptimizeBody(rules, cur, k, it) ==
    IF k = 0 THEN OptimizeLoop(rules, cur, FALSE, it + 1)
    ELSE OptimizeLoop(rules, apply_rule(cur, rules[k]).val, TRUE, it + 1)

OptimizeLoop(rules, cur, ch, it) ==
    IF ~LoopCond(ch, it) THEN cur
    ELSE OptimizeBody(rules, cur, FirstAccepted(cur, rules, 1), it)

\* PathOptimizer::optimize_path
optimize_path(rules, path) == OptimizeLoop(rules, path, TRUE, 0)

(***************************************************************************)
(* core/typeside.rs : Value; core/query.rs : CqlQuery                      *)
(*                                                                         *)
(* A String value is its sequence of bytes.  Float and Boolean values do   *)
(* not occur in the instances and queries below.                           *)
(***************************************************************************)
VInteger(i) == [tag |-> "Integer", i |-> i, s |-> <<>>]
VString(s) == [tag |-> "String", i |-> 0, s |-> s]
VNull == [tag |-> "Null", i |-> 0, s |-> <<>>]
\* Value::Float; the Floats of the model are the whole numbers, Float(i.0)
VFloat(i) == [tag |-> "Float", i |-> i, s |-> <<>>]
\* Value::Boolean; i is 1 for true, 0 for false
VBoolean(b) == [tag |-> "Boolean", i |-> IF b THEN 1 ELSE 0, s |-> <<>>]

\* WhereClause::Comparison
Comparison(var, path, op, value) ==
    [kind |-> "Comparison", var1 |-> var, path1 |-> path, op |-> op, value |-> value,
     var2 |-> "", path2 |-> <<>>]
\* WhereClause::PathEqual
PathEqual(var1, path1, var2, path2) ==
    [kind |-> "PathEqual", var1 |-> var1, path1 |-> path1, op |-> "", value |-> VNull,
     var2 |-> var2, path2 |-> path2]
\* AttributeBinding
AttributeBinding(from_var, path, attribute) ==
    [from_var |-> from_var, path |-> path, attribute |-> attribute]
\* FkBinding
FkBinding(from_var, path) == [from_var |-> from_var, path |-> path]
\* QueryBlock
QueryBlock(target_entity, from_vars, where_clauses, attribute_bindings, fk_bindings) ==
    [target_entity |-> target_entity, from_vars |-> from_vars,
     where_clauses |-> where_clauses, attribute_bindings |-> attribute_bindings,
     fk_bindings |-> fk_bindings]

\* CqlQuery::optimize, the rewriting of the path of a FROM variable
OptimizeVarPath(rules, from_vars, var, path) ==
    IF var \in DOMAIN from_vars
    THEN optimize_path(rules, Path(from_vars[var], path)).edges
    ELSE path

\* CqlQuery::optimize, the rewriting of one WHERE clause
OptimizeClause(rules, from_vars, clause) ==
    IF clause.kind = "Comparison"
    THEN IF Len(clause.path1) >= 2
         THEN [clause EXCEPT
                  !.path1 = OptimizeVarPath(rules, from_vars, clause.var1, clause.path1)]
         ELSE clause
    ELSE [clause EXCEPT
             !.path1 = OptimizeVarPath(rules, from_vars, clause.var1, clause.path1),
             !.path2 = OptimizeVarPath(rules, from_vars, clause.var2, clause.path2)]

\* CqlQuery::optimize, the rewriting of one attribute binding
OptimizeBinding(rules, from_vars, ab) ==
    IF Len(ab.path) >= 2 /\ ab.from_var \in DOMAIN from_vars
    THEN [ab EXCEPT !.path = OptimizeVarPath(rules, from_vars, ab.from_var, ab.path)]
    ELSE ab

\* CqlQuery::optimize, given the rules of PathOptimizer::from_schema; a query
\* is the sequence of its blocks
QueryOptimize(rules, blocks) ==
    [b \in DOMAIN blocks |->
        [blocks[b] EXCEPT
            !.where_clauses = [c \in DOMAIN @ |-> OptimizeClause(rules, blocks[b].from_vars, @[c])],
            !.attribute_bindings =
                [a \in DOMAIN @ |-> OptimizeBinding(rules, blocks[b].from_vars, @[a])]]]

(***************************************************************************)
(* core/eval.rs                                                            *)
(*                                                                         *)
(* A Result is [ok |-> TRUE, val] or [ok |-> FALSE]; the text of the error *)
(* is not modelled.                                                        *)
(***************************************************************************)
Ok(x) == [ok |-> TRUE, val |-> x]
Err == [ok |-> FALSE]

\* follow_fks, from position i of fk_path: Ok(<<entity, row>>) or Err
RECURSIVE FollowFksFrom(_, _, _, _, _, _)
FollowFksFrom(at, row, fk_path, source, schema, i) ==
    IF i > Len(fk_path) THEN Ok(<<at, row>>)
    ELSE LET fk_name == fk_path[i]
         IN  IF fk_name \notin DOMAIN schema.edges THEN Err
             ELSE IF schema.edges[fk_name].kind # "fk" THEN Err
             ELSE IF at \notin DOMAIN source THEN Err
             ELSE LET v == EntityGetFk(source[at], row, fk_name)
                  IN  IF ~v.some THEN Err
                      ELSE FollowFksFrom(schema.edges[fk_name].target, v.val,
                                         fk_path, source, schema, i + 1)

follow_fks(start_entity, start_row, fk_path, source, schema) ==
    FollowFksFrom(start_entity, start_row, fk_path, source, schema, 1)

\* resolve_value, the last edge being an attribute: the attribute read at the
\* end `at` of the walk
ResolveAttribute(at, last, source) ==
    IF ~at.ok THEN Err
    ELSE IF at.val[1] \notin DOMAIN source THEN Err
    ELSE LET v == EntityGetAttr(source[at.val[1]], at.val[2], last)
         IN  IF v.some THEN Ok(v.val) ELSE Err

\* `row as i64`: a RowId in the upper half of the unsigned range comes out
\* negative
AsSigned(row) == IF row >= RowIdModulus \div 2 THEN row - RowIdModulus ELSE row

\* resolve_value, every edge being an FK: the RowId at the end `at` of the
\* walk, cast to an Integer
ResolveRowId(at) == IF ~at.ok THEN Err ELSE Ok(VInteger(AsSigned(at.val[2])))

\* resolve_value; binding maps a FROM variable to <<entity, row>>
resolve_value(var, path, binding, source, schema) ==
    IF var \notin DOMAIN binding THEN Err
    ELSE IF path = <<>> THEN Err
    ELSE LET last == path[Len(path)]
         IN  IF last \in DOMAIN schema.edges /\ schema.edges[last].kind = "attr"
             THEN ResolveAttribute(follow_fks(binding[var][1], binding[var][2],
                                              SubSeq(path, 1, Len(path) - 1), source, schema),
                                   last, source)
             ELSE ResolveRowId(follow_fks(binding[var][1], binding[var][2], path,
                                          source, schema))

\* a < b on Strings (bytes)
StrLt(a, b) == StrGt(b, a)

\* compare_values, the arms of two numbers a and b (Integer/Integer, or, on
\* whole Floats, where |a - b| < EPSILON is a = b, the arms with a Float)
CompareNumbers(a, op, b) ==
    CASE op = "Eq" -> a = b
      [] op = "Neq" -> a # b
      [] op = "Lt" -> a < b
      [] op = "Gt" -> a > b
      [] op = "Lte" -> a <= b
      [] op = "Gte" -> a >= b

\* a comparison in which the Null arm answers as the arm of unrelated sorts
CompareNull_AsIncompatible(op) == FALSE

\* compare_values, the arm of Null on either side
CompareNull(op) == op = "Neq"

\* compare_values
compare_values(lhs, op, rhs) ==
    IF lhs.tag \in {"Integer", "Float"} /\ rhs.tag \in {"Integer", "Float"}
    THEN CompareNumbers(lhs.i, op, rhs.i)
    ELSE IF lhs.tag = "String" /\ rhs.tag = "String"
    THEN CASE op = "Eq" -> lhs.s = rhs.s
           [] op = "Neq" -> lhs.s # rhs.s
           [] op = "Lt" -> StrLt(lhs.s, rhs.s)
           [] op = "Gt" -> StrGt(lhs.s, rhs.s)
           [] op = "Lte" -> ~StrGt(lhs.s, rhs.s)
           [] op = "Gte" -> ~StrLt(lhs.s, rhs.s)
    ELSE IF lhs.tag = "Boolean" /\ rhs.tag = "Boolean"
    THEN CASE op = "Eq" -> lhs.i = rhs.i
           [] op = "Neq" -> lhs.i # rhs.i
           [] OTHER -> FALSE
    ELSE IF lhs.tag = "Null" \/ rhs.tag = "Null"
    THEN CompareNull(op)
    ELSE FALSE

\* eval_where_clauses, a Comparison whose path resolved to `resolved`
WhereComparison(resolved, clause) ==
    IF ~resolved.ok THEN Err
    ELSE Ok(compare_values(resolved.val, clause.op, clause.value))

\* eval_where_clauses, a PathEqual whose paths resolved to v1 and v2 (the
\* second is not resolved when the first fails)
WherePathEqual(v1, v2) ==
    IF ~v1.ok THEN Err
    ELSE IF ~v2.ok THEN Err
    ELSE Ok(v1.val = v2.val)

\* eval_where_clauses, one clause: Ok(holds) or Err
WhereClause(clause, binding, source, schema) ==
    IF clause.kind = "Comparison"
    THEN WhereComparison(resolve_value(clause.var1, clause.path1, binding, source, schema),
                         clause)
    ELSE WherePathEqual(resolve_value(clause.var1, clause.path1, binding, source, schema),
                        resolve_value(clause.var2, clause.path2, binding, source, schema))

\* eval_where_clauses, from clause i: Ok(passes) or Err
RECURSIVE EvalWhereFrom(_, _, _, _, _)
\* a WHERE evaluation that resolves every clause of the list, whatever the
\* earlier clauses gave
WhereAfter_EvaluateAll(holds, clauses, binding, source, schema, i) ==
    IF ~holds.ok THEN Err
    ELSE IF ~EvalWhereFrom(clauses, binding, source, schema, i + 1).ok THEN Err
    ELSE Ok(holds.val /\ EvalWhereFrom(clauses, binding, source, schema, i + 1).val)

\* the early returns after clause i, whose outcome is `holds`
WhereAfter(holds, clauses, binding, source, schema, i) ==
    IF ~holds.ok THEN Err
    ELSE IF ~holds.val THEN Ok(FALSE)
    ELSE EvalWhereFrom(clauses, binding, source, schema, i + 1)

EvalWhereFrom(clauses, binding, source, schema, i) ==
    IF i > Len(clauses) THEN Ok(TRUE)
    ELSE WhereAfter(WhereClause(clauses[i], binding, source, schema),
                    clauses, binding, source, schema, i)

eval_where_clauses(clauses, binding, source, schema) ==
    EvalWhereFrom(clauses, binding, source, schema, 1)

\* eval_attribute_binding
eval_attribute_binding(ab, binding, source, schema) ==
    resolve_value(ab.from_var, Append(ab.path, ab.attribute), binding, source, schema)

\* eval_fk_binding, the row at the end `at` of the walk
ResolveRowIdOnly(at) == IF ~at.ok THEN Err ELSE Ok(at.val[2])

\* eval_fk_binding
eval_fk_binding(fb, binding, source, schema) ==
    IF fb.from_var \notin DOMAIN binding THEN Err
    ELSE ResolveRowIdOnly(follow_fks(binding[fb.from_var][1], binding[fb.from_var][2],
                                     fb.path, source, schema))

\* cartesian_product of a sequence of sequences of RowIds, from position i
RECURSIVE CartesianFrom(_, _)
CartesianFrom(sets, i) ==
    IF i > Len(sets) THEN <<<<>>>>
    ELSE LET first == sets[i]
             rest == CartesianFrom(sets, i + 1)
         IN  [k \in 1..(Len(first) * Len(rest)) |->
                 <<first[((k - 1) \div Len(rest)) + 1]>> \o rest[((k - 1) % Len(rest)) + 1]]

cartesian_product(sets) == CartesianFrom(sets, 1)

\* eval_block, the binding of one tuple: var_name -> <<entity_name, row_id>>
TupleBinding(block, var_names, tuple) ==
    [v \in DOMAIN block.from_vars |->
        LET i == CHOOSE j \in DOMAIN var_names : var_names[j] = v
        IN  <<block.from_vars[v], tuple[i]>>]

\* a loop body that counts a tuple only once it passed the WHERE clauses
TupleBody_CountAfterFilter(acc, passes, vals, rows) ==
    IF ~passes.ok THEN [ok |-> FALSE, result |-> acc.result, scanned |-> acc.scanned]
    ELSE IF ~passes.val THEN acc
    ELSE IF \/ \E a \in DOMAIN vals : ~vals[a].ok
            \/ \E f \in DOMAIN rows : ~rows[f].ok
         THEN [ok |-> FALSE, result |-> acc.result, scanned |-> acc.scanned + 1]
    ELSE [ok |-> TRUE,
          result |-> EntityInsert(acc.result,
                                  [a \in DOMAIN vals |-> vals[a].val],
                                  [f \in DOMAIN rows |-> rows[f].val]).ed,
          scanned |-> acc.scanned + 1]

\* eval_block, the body of the loop after the WHERE clauses gave `passes`, the
\* attribute bindings `vals` and the FK bindings `rows`.  acc is
\* [ok, result, scanned].
TupleBody(acc, passes, vals, rows) ==
    IF ~passes.ok THEN [ok |-> FALSE, result |-> acc.result, scanned |-> acc.scanned + 1]
    ELSE IF ~passes.val THEN [acc EXCEPT !.scanned = @ + 1]
    ELSE IF \/ \E a \in DOMAIN vals : ~vals[a].ok
            \/ \E f \in DOMAIN rows : ~rows[f].ok
         THEN [ok |-> FALSE, result |-> acc.result, scanned |-> acc.scanned + 1]
    ELSE [ok |-> TRUE,
          result |-> EntityInsert(acc.result,
                                  [a \in DOMAIN vals |-> vals[a].val],
                                  [f \in DOMAIN rows |-> rows[f].val]).ed,
          scanned |-> acc.scanned + 1]

\* eval_block, one tuple
EvalTuple(acc, block, binding, source, schema) ==
    TupleBody(acc,
              eval_where_clauses(block.where_clauses, binding, source, schema),
              [a \in DOMAIN block.attribute_bindings |->
                  eval_attribute_binding(block.attribute_bindings[a], binding, source, schema)],
              [f \in DOMAIN block.fk_bindings |->
                  eval_fk_binding(block.fk_bindings[f], binding, source, schema)])

\* eval_block, the loop over tuples from position k; it ends at the first
\* error.  var_names is the order of block.from_vars.
RECURSIVE EvalTuplesFrom(_, _, _, _, _, _, _)
EvalTuplesFrom(acc, tuples, k, block, var_names, source, schema) ==
    IF k > Len(tuples) \/ ~acc.ok THEN acc
    ELSE EvalTuplesFrom(EvalTuple(acc, block, TupleBinding(block, var_names, tuples[k]),
                                  source, schema),
                        tuples, k + 1, block, var_names, source, schema)

\* eval_block, what is returned for the outcome r of the loop
BlockResult(r) ==
    [ok |-> r.ok, result |-> r.result, scanned |-> r.scanned,
     returned |-> EntityLen(r.result)]

\* eval_block: [ok, result, scanned, returned].  var_names is the order in
\* which block.from_vars is iterated, row_order[e] the order of e's rows.
eval_block(block, source, schema, var_names, row_order) ==
    BlockResult(
        EvalTuplesFrom([ok |-> TRUE, result |-> EntityNew, scanned |-> 0],
                       cartesian_product(
                           [i \in DOMAIN var_names |->
                               IF block.from_vars[var_names[i]] \in DOMAIN source
                               THEN row_order[block.from_vars[var_names[i]]]
                               ELSE <<>>]),
                       1, block, var_names, source, schema))

\* eval_query, the body of the loop for a block evaluated to r.  acc is the
\* EvalResult being built: [state, instance, rows_scanned, rows_returned]
BlockBody(acc, r, target_entity) ==
    IF ~r.ok
    THEN [state |-> "err", instance |-> EmptyMap, rows_scanned |-> 0, rows_returned |-> 0]
    ELSE [state |-> "ok",
          instance |-> MapPut(acc.instance, target_entity, r.result),
          rows_scanned |-> acc.rows_scanned + r.scanned,
          rows_returned |-> acc.rows_returned + r.returned]

\* eval_query, the loop over blocks from position b; it ends at the first
\* error
RECURSIVE EvalBlocksFrom(_, _, _, _, _, _, _)
EvalBlocksFrom(acc, blocks, b, source, schema, var_orders, row_order) ==
    IF b > Len(blocks) \/ acc.state = "err" THEN acc
    ELSE EvalBlocksFrom(
             BlockBody(acc, eval_block(blocks[b], source, schema, var_orders[b], row_order),
                       blocks[b].target_entity),
             blocks, b + 1, source, schema, var_orders, row_order)

\* eval_query: the EvalResult, or state "err"
eval_query(blocks, source, schema, var_orders, row_order) ==
    EvalBlocksFrom([state |-> "ok", instance |-> EmptyMap,
                    rows_scanned |-> 0, rows_returned |-> 0],
                   blocks, 1, source, schema, var_orders, row_order)

\* eval_query_optimized, given the optimizer built by PathOptimizer::from_schema
EvalWithOptimizer(opt, blocks, source, schema, var_orders, row_order) ==
    IF opt.state = "panicked"
    THEN [state |-> "panicked", instance |-> EmptyMap,
          rows_scanned |-> 0, rows_returned |-> 0]
    ELSE eval_query(QueryOptimize(opt.rules, blocks), source, schema,
                    var_orders, row_order)

\* eval_query_optimized: state "panicked" when PathOptimizer::from_schema panics
eval_query_optimized(blocks, source, schema, path_eqs, var_orders, row_order) ==
    EvalWithOptimizer(from_schema(path_eqs), blocks, source, schema, var_orders, row_order)

(***************************************************************************)
(* core/validate.rs : validate_instance                                    *)
(*                                                                         *)
(* The Vec of ValidationError is kept as the set of its findings (its      *)
(* order is that of the HashMaps walked); a finding is a record in place   *)
(* of the formatted message.                                               *)
(***************************************************************************)
UnknownEntity(entity_name) == [kind |-> "unknown_entity", entity |-> entity_name]
MissingFk(entity_name, row_id, name) ==
    [kind |-> "missing_fk", entity |-> entity_name, row |-> row_id, fk |-> name]
DanglingFk(entity_name, row_id, name, target, target_row_id) ==
    [kind |-> "dangling_fk", entity |-> entity_name, row |-> row_id, fk |-> name,
     target |-> target, target_row |-> target_row_id]
EquationViolated(i, row_id, lhs_result, rhs_result) ==
    [kind |-> "equation", eq |-> i, row |-> row_id, lhs |-> lhs_result, rhs |-> rhs_result]

\* a check that only looks for the presence of the FK value
ValidateFk_PresenceOnly(instance, entity_name, row_id, name, target, v) ==
    IF ~v.some THEN {MissingFk(entity_name, row_id, name)} ELSE {}

\* validate_instance, lines 152-174: what is pushed for one row and one FK
\* whose value in the row is v
ValidateFk(instance, entity_name, row_id, name, target, v) ==
    IF ~v.some THEN {MissingFk(entity_name, row_id, name)}
    ELSE IF target \in DOMAIN instance
            /\ v.val \notin DOMAIN instance[target].attribute_values
         THEN {DanglingFk(entity_name, row_id, name, target, v.val)}
    ELSE {}

\* validate_instance, lines 130-177: the loop over instance.data
ValidateFks(instance, schema) ==
    UNION {IF entity_name \notin schema.nodes
           THEN {UnknownEntity(entity_name)}
           ELSE UNION {ValidateFk(instance, entity_name, row_id, name,
                                  schema.edges[name].target,
                                  EntityGetFk(instance[entity_name], row_id, name)) :
                          row_id \in EntityRowIds(instance[entity_name]),
                          name \in EdgesOfKind(schema, entity_name, "fk")} :
              entity_name \in DOMAIN instance}

\* validate_instance, lines 190-199: the comparison of the two results
ValidateRow(i, row_id, lhs_result, rhs_result) ==
    IF lhs_result # rhs_result
    THEN {EquationViolated(i, row_id, lhs_result, rhs_result)}
    ELSE {}

\* validate_instance, lines 180-203: the loop over schema.path_equations
ValidateEquations(instance, schema, path_eqs) ==
    UNION {IF path_eqs[i].lhs.start \in DOMAIN instance
           THEN UNION {ValidateRow(i, row_id,
                                   follow_path(instance, path_eqs[i].lhs.start, row_id,
                                               path_eqs[i].lhs.edges, schema),
                                   follow_path(instance, path_eqs[i].rhs.start, row_id,
                                               path_eqs[i].rhs.edges, schema)) :
                          row_id \in EntityRowIds(instance[path_eqs[i].lhs.start])}
           ELSE {} :
              i \in DOMAIN path_eqs}

\* validate_instance, lines 205-209
ValidationOutcome(errors) ==
    IF errors = {} THEN [state |-> "Ok", errors |-> {}]
    ELSE [state |-> "Err", errors |-> errors]

validate_instance(instance, schema, path_eqs) ==
    ValidationOutcome(ValidateFks(instance, schema)
                      \cup ValidateEquations(instance, schema, path_eqs))

(***************************************************************************)
(* core/schema.rs : the builder of Schema; core/validate.rs :              *)
(* validate_schema                                                         *)
(*                                                                         *)
(* The schema is [nodes, edges, path_equations].  The findings about edges *)
(* are kept as a set (they come in the order of a HashMap), the findings   *)
(* about path equations as the sequence that is pushed.                    *)
(***************************************************************************)
\* Schema::new
SchemaNew == [nodes |-> {}, edges |-> EmptyMap, path_equations |-> <<>>]

\* Schema::add_node
SchemaAddNode(s, name) == [s EXCEPT !.nodes = @ \cup {name}]

\* a builder call that adds the FK whatever its nodes
SchemaAddFk_Unchecked(s, name, source, target) ==
    [state |-> "ok", schema |-> [s EXCEPT !.edges = MapPut(@, name, EdgeFk(source, target))]]

\* Schema::add_fk: [state, schema]; "panicked" when an assert! fails
SchemaAddFk(s, name, source, target) ==
    IF source \notin s.nodes \/ target \notin s.nodes
    THEN [state |-> "panicked", schema |-> s]
    ELSE [state |-> "ok", schema |-> [s EXCEPT !.edges = MapPut(@, name, EdgeFk(source, target))]]

\* Schema::add_attribute
SchemaAddAttribute(s, name, source) ==
    IF source \notin s.nodes
    THEN [state |-> "panicked", schema |-> s]
    ELSE [state |-> "ok", schema |-> [s EXCEPT !.edges = MapPut(@, name, EdgeAttr(source))]]

\* Schema::add_path_equation
SchemaAddPathEquation(s, lhs, rhs) ==
    [s EXCEPT !.path_equations = Append(@, Eq(lhs, rhs))]

\* validate_schema, lines 39-69: the findings about the edges
SchemaEdgeFindings(s) ==
    {[kind |-> "source", edge |-> e] :
        e \in {x \in DOMAIN s.edges : s.edges[x].source \notin s.nodes}}
    \cup {[kind |-> "target", edge |-> e] :
        e \in {x \in DOMAIN s.edges :
                  s.edges[x].kind = "fk" /\ s.edges[x].target \notin s.nodes}}

\* validate_schema, lines 74-89: the finding about the start of one side
SchemaStartFinding(s, i, side, p) ==
    IF p.start \notin s.nodes
    THEN <<[kind |-> "start", eq |-> i, side |-> side, ref |-> p.start]>>
    ELSE <<>>

\* validate_schema, lines 92-111: the findings about the edges es[k..] of one side
RECURSIVE SchemaPathFindings(_, _, _, _, _)
SchemaPathFindings(s, i, side, es, k) ==
    IF k > Len(es) THEN <<>>
    ELSE (IF es[k] \notin DOMAIN s.edges
          THEN <<[kind |-> "edge", eq |-> i, side |-> side, ref |-> es[k]]>>
          ELSE <<>>)
         \o SchemaPathFindings(s, i, side, es, k + 1)

\* validate_schema, lines 72-112: the findings about the equations eqs[i..]
\* (the messages carry the 0-based index)
RECURSIVE SchemaEquationFindings(_, _)
SchemaEquationFindings(s, i) ==
    IF i > Len(s.path_equations) THEN <<>>
    ELSE SchemaStartFinding(s, i - 1, "lhs", s.path_equations[i].lhs)
         \o SchemaStartFinding(s, i - 1, "rhs", s.path_equations[i].rhs)
         \o SchemaPathFindings(s, i - 1, "lhs", s.path_equations[i].lhs.edges, 1)
         \o SchemaPathFindings(s, i - 1, "rhs", s.path_equations[i].rhs.edges, 1)
         \o SchemaEquationFindings(s, i + 1)

\* validate_schema, lines 114-118
SchemaOutcome(edge_findings, eq_findings) ==
    [state |-> IF edge_findings = {} /\ eq_findings = <<>> THEN "Ok" ELSE "Err",
     edge_findings |-> edge_findings, eq_findings |-> eq_findings]

validate_schema(s) ==
    SchemaOutcome(SchemaEdgeFindings(s), SchemaEquationFindings(s, 1))

(***************************************************************************)
(* core/eval.rs : distinct, cmp_values                                     *)
(***************************************************************************)
\* cmp_values: -1 (Less), 0 (Equal), 1 (Greater); values of different sorts
\* are Equal
cmp_values(a, b) ==
    IF a.tag = b.tag /\ a.tag \in {"Integer", "Float", "Boolean"}
    THEN (IF a.i < b.i THEN -1 ELSE IF a.i > b.i THEN 1 ELSE 0)
    ELSE IF a.tag = "String" /\ b.tag = "String"
    THEN (IF StrLt(a.s, b.s) THEN -1 ELSE IF StrGt(a.s, b.s) THEN 1 ELSE 0)
    ELSE 0

\* distinct, lines 478-484: the values of attr over the rows in the order
\* row_ids() gave them, from position k; rows without the attribute are skipped
RECURSIVE CollectAttr(_, _, _, _)
CollectAttr(ed, row_ids, attr, k) ==
    IF k > Len(row_ids) THEN <<>>
    ELSE (IF EntityGetAttr(ed, row_ids[k], attr).some
          THEN <<EntityGetAttr(ed, row_ids[k], attr).val>>
          ELSE <<>>)
         \o CollectAttr(ed, row_ids, attr, k + 1)

\* cmp_values is a total preorder on the values of vs
ConsistentOrder(vs) ==
    \A i, j, k \in DOMAIN vs :
        (cmp_values(vs[i], vs[j]) <= 0 /\ cmp_values(vs[j], vs[k]) <= 0)
            => cmp_values(vs[i], vs[k]) <= 0

\* the stable sort: v put behind the last element of sorted that is not Greater
StableInsert(sorted, v) ==
    LET behind == {k \in DOMAIN sorted : cmp_values(sorted[k], v) <= 0}
        at == IF behind = {} THEN 0 ELSE Max(behind)
    IN  SubSeq(sorted, 1, at) \o <<v>> \o SubSeq(sorted, at + 1, Len(sorted))

RECURSIVE StableSortFrom(_, _, _)
StableSortFrom(sorted, vs, k) ==
    IF k > Len(vs) THEN sorted
    ELSE StableSortFrom(StableInsert(sorted, vs[k]), vs, k + 1)

\* the sequences with the elements of vs in some order
Rearrangements(vs) ==
    {[k \in DOMAIN vs |-> vs[p[k]]] :
        p \in {q \in [DOMAIN vs -> DOMAIN vs] : \A i, j \in DOMAIN vs : q[i] = q[j] => i = j}}

\* the longest slice that slice::sort_by sorts by insertion alone
SmallSortLen == 20

\* beyond SmallSortLen the sort may find that cmp_values is no total order
\* and panic
SortMayPanic(vs) == Len(vs) > SmallSortLen /\ ~ConsistentOrder(vs)

\* values.sort_by(cmp_values), the outcomes [state, values]: the stable sort
\* when cmp_values is a total preorder on the values; otherwise the order
\* of the result is unspecified, and a long slice may make the sort panic
SortByCmpValues(vs) ==
    {[state |-> "ok", values |-> sorted] :
        sorted \in IF ConsistentOrder(vs) THEN {StableSortFrom(<<>>, vs, 1)}
                   ELSE Rearrangements(vs)}
    \cup (IF SortMayPanic(vs) THEN {[state |-> "panicked", values |-> <<>>]} ELSE {})

\* Vec::dedup: consecutive equal elements are reduced to the first
RECURSIVE Dedup(_, _)
Dedup(vs, k) ==
    IF k > Len(vs) THEN <<>>
    ELSE (IF k > 1 /\ vs[k] = vs[k - 1] THEN <<>> ELSE <<vs[k]>>) \o Dedup(vs, k + 1)

\* distinct on the entity ed, whose row_ids() came in the order row_ids: the
\* outcomes [state, values] it can have, the list returned or a panic
distinct(ed, row_ids, attr) ==
    {[state |-> o.state, values |-> Dedup(o.values, 1)] :
        o \in SortByCmpValues(CollectAttr(ed, row_ids, attr, 1))}

(***************************************************************************)
(* The schema, equations and queries the evaluator is run on               *)
(*                                                                         *)
(*   E : A --f--> B --g--> A,  attribute n : A                             *)
(***************************************************************************)
SchemaE == Schema({"A", "B"},
                  [k \in {"f", "g", "n"} |->
                      CASE k = "f" -> EdgeFk("A", "B")
                        [] k = "g" -> EdgeFk("B", "A")
                        [] k = "n" -> EdgeAttr("A")])

\* the path equations the schema is given: none; g after f is the identity of
\* A; f.g.f is f; f and g are inverse of each other
EvalEqChoices ==
    { <<>>,
      <<Eq(Path("A", <<"f", "g">>), Path("A", <<>>))>>,
      <<Eq(Path("A", <<"f", "g", "f">>), Path("A", <<"f">>))>>,
      <<Eq(Path("A", <<"f", "g">>), Path("A", <<>>)),
        Eq(Path("B", <<"g", "f">>), Path("B", <<>>))>> }

OneVar == [v \in {"a"} |-> "A"]
TwoVars == [v \in {"a", "b"} |-> IF v = "a" THEN "A" ELSE "B"]

\* FROM a:A, b:B WHERE a.f.g.f = b.g.f RETURN x := a.n
Q_path_equal ==
    <<QueryBlock("R", TwoVars,
                 <<PathEqual("a", <<"f", "g", "f">>, "b", <<"g", "f">>)>>,
                 [x \in {"x"} |-> AttributeBinding("a", <<>>, "n")],
                 EmptyMap)>>
\* FROM a:A WHERE a.f.g.n = 1 RETURN x := a.f.g.n, k := a.f.g
Q_attr_path ==
    <<QueryBlock("R", OneVar,
                 <<Comparison("a", <<"f", "g", "n">>, "Eq", VInteger(1))>>,
                 [x \in {"x"} |-> AttributeBinding("a", <<"f", "g">>, "n")],
                 [k \in {"k"} |-> FkBinding("a", <<"f", "g">>)])>>
\* FROM a:A WHERE a.f.g >= 2 RETURN k := a.f
Q_fk_compare ==
    <<QueryBlock("R", OneVar,
                 <<Comparison("a", <<"f", "g">>, "Gte", VInteger(2))>>,
                 EmptyMap,
                 [k \in {"k"} |-> FkBinding("a", <<"f">>)])>>
\* FROM a:A WHERE a.f.g.f.g.n != NULL RETURN x := a.f.g.f.g.n
Q_long ==
    <<QueryBlock("R", OneVar,
                 <<Comparison("a", <<"f", "g", "f", "g", "n">>, "Neq", VNull)>>,
                 [x \in {"x"} |-> AttributeBinding("a", <<"f", "g", "f", "g">>, "n")],
                 EmptyMap)>>

\* two blocks: R: FROM a:A WHERE a.n = 1 RETURN x := a.n
\*             S: FROM a:A WHERE a.n = 2 AND a.f.g.n = 1 RETURN k := a.f
Q_two_blocks ==
    <<QueryBlock("R", OneVar,
                 <<Comparison("a", <<"n">>, "Eq", VInteger(1))>>,
                 [x \in {"x"} |-> AttributeBinding("a", <<>>, "n")],
                 EmptyMap),
      QueryBlock("S", OneVar,
                 <<Comparison("a", <<"n">>, "Eq", VInteger(2)),
                   Comparison("a", <<"f", "g", "n">>, "Eq", VInteger(1))>>,
                 EmptyMap,
                 [k \in {"k"} |-> FkBinding("a", <<"f">>)])>>

\* FROM a:A WHERE a.n = a.f.g.n RETURN x := a.n
Q_attr_equal ==
    <<QueryBlock("R", OneVar,
                 <<PathEqual("a", <<"n">>, "a", <<"f", "g", "n">>)>>,
                 [x \in {"x"} |-> AttributeBinding("a", <<>>, "n")],
                 EmptyMap)>>

\* two blocks with the same target entity:
\*   R: FROM a:A RETURN x := a.n
\*   R: FROM a:A WHERE a.n = 1 RETURN x := a.n
Q_same_target ==
    <<QueryBlock("R", OneVar, <<>>,
                 [x \in {"x"} |-> AttributeBinding("a", <<>>, "n")],
                 EmptyMap),
      QueryBlock("R", OneVar,
                 <<Comparison("a", <<"n">>, "Eq", VInteger(1))>>,
                 [x \in {"x"} |-> AttributeBinding("a", <<>>, "n")],
                 EmptyMap)>>

QueryChoices ==
    {Q_path_equal, Q_attr_path, Q_fk_compare, Q_long, Q_two_blocks, Q_attr_equal, Q_same_target}

\* the values a row's attribute n is inserted with
EvalValues == {VInteger(1), VInteger(2), VNull}

NoEval == [state |-> "none", instance |-> EmptyMap, rows_scanned |-> 0, rows_returned |-> 0]
NoOrders == [var_orders |-> <<>>, row_order |-> <<>>]

\* nothing chosen, nothing evaluated
EvalStart ==
    /\ ev_pc = "idle"
    /\ ev_eqs = <<>>
    /\ ev_query = <<>>
    /\ ev_inst = NoInstance
    /\ ev_rows = 0
    /\ ev_orders = NoOrders
    /\ ev_plain = NoEval
    /\ ev_opt = NoEval

NoValidation == [state |-> "none", errors |-> {}]

\* nothing chosen, nothing validated
ValStart ==
    /\ val_pc = "idle"
    /\ val_eqs = <<>>
    /\ val_inst = NoInstance
    /\ val_rows = 0
    /\ val_result = NoValidation


(***************************************************************************)
(* Inputs of the optimizer specification                                   *)
(***************************************************************************)
\* The equations a schema is given: a shortcut, an equal-length pair, an
\* overlapping pair, an idempotent edge, an identity, two equations whose
\* sides start at different nodes, an equal-length pair of length 2, and an
\* equal-length pair whose smaller side is the larger side of the shortcut.
EqPool ==
    { Eq(Path("A", <<"f", "g">>), Path("A", <<"h">>)),
      Eq(Path("A", <<"f">>), Path("A", <<"g">>)),
      Eq(Path("A", <<"g", "g">>), Path("A", <<"f">>)),
      Eq(Path("A", <<"h", "h">>), Path("A", <<"h">>)),
      Eq(Path("A", <<"f", "g">>), Path("A", <<>>)),
      Eq(Path("B", <<"f">>), Path("A", <<"g">>)),
      Eq(Path("B", <<"g">>), Path("A", <<"f">>)),
      Eq(Path("A", <<"h", "h">>), Path("A", <<"g", "g">>)),
      Eq(Path("A", <<"h", "h">>), Path("A", <<"f", "g">>)) }

\* The paths optimize is called on: every path from A up to MaxPathLen edges,
\* the one-edge paths from B (the rules that start at B have one-edge sides),
\* and one long path, a word repeated more often than the pass cap.
LongWord == <<"f", "g">>

InputPaths ==
    {Path("A", es) : es \in SeqsUpTo(EdgeNames, MaxPathLen)}
    \cup {Path("B", es) : es \in SeqsUpTo(EdgeNames, 1)}
    \cup {Path("A", Rep(LongWord, LongReps))}

NoResult == [original |-> Path("A", <<>>), optimized |-> Path("A", <<>>),
             rules_applied |-> <<>>, joins_eliminated |-> 0]

(***************************************************************************)
(* The optimizer as a state machine                                        *)
(***************************************************************************)
OptInit ==
    /\ path_equations = <<>>
    /\ optimizer = [state |-> "none", rules |-> <<>>]
    /\ opt_pc = "idle"
    /\ original = Path("A", <<>>)
    /\ current = Path("A", <<>>)
    /\ rules_applied = <<>>
    /\ changed = FALSE
    /\ iteration = 0
    /\ result = NoResult

\* a new schema, not validated
NoSchemaOutcome == [state |-> "none", edge_findings |-> {}, eq_findings |-> <<>>]

SchStart ==
    /\ sch_pc = "ok"
    /\ sch_cur = SchemaNew
    /\ sch_ops = 0
    /\ sch_result = NoSchemaOutcome

\* no function called yet
NoCompare == [lhs |-> VNull, op |-> "none", rhs |-> VNull, out |-> FALSE]

NoDistinct == [entity |-> EntityNew, row_ids |-> <<>>, state |-> "none", out |-> <<>>]

NoValidate == [mapping |-> NoMapping, out |-> [state |-> "none", kind |-> "", about |-> ""]]

CallStart ==
    /\ cv_call = NoCompare
    /\ ds_call = NoDistinct
    /\ mv_call = NoValidate

\* the state after construction: nothing built, nothing called
Init ==
    /\ OptInit
    /\ EntStart
    /\ MigStart
    /\ EvalStart
    /\ ValStart
    /\ CmpStart
    /\ CallStart
    /\ SchStart

\* Schema::add_path_equation
AddPathEquation ==
    /\ optimizer.state = "none"
    /\ Len(path_equations) < MaxEqs
    /\ \E eq \in EqPool : path_equations' = Append(path_equations, eq)
    /\ UNCHANGED <<optimizer, opt_pc, original, current, rules_applied,
                   changed, iteration, result>>
    /\ UNCHANGED notOpt

\* PathOptimizer::from_schema
FromSchema ==
    /\ optimizer.state = "none"
    /\ optimizer' = from_schema(path_equations)
    /\ UNCHANGED <<path_equations, opt_pc, original, current, rules_applied,
                   changed, iteration, result>>
    /\ UNCHANGED notOpt

\* PathOptimizer::optimize, lines 200-208
OptimizeCall ==
    /\ optimizer.state = "built"
    /\ opt_pc = "idle"
    /\ \E p \in InputPaths \cup {optimizer.rules[k].lhs : k \in 1..Len(optimizer.rules)} :
          /\ original' = p
          /\ current' = p
    /\ rules_applied' = <<>>
    /\ changed' = TRUE
    /\ iteration' = 0
    /\ opt_pc' = "loop"
    /\ UNCHANGED <<path_equations, optimizer, result>>
    /\ UNCHANGED notOpt

\* one iteration of the while loop, lines 210-224
OptimizePass ==
    /\ opt_pc = "loop"
    /\ LoopCond(changed, iteration)
    /\ iteration' = iteration + 1
    /\ LET k == FirstAccepted(current, optimizer.rules, 1)
       IN  IF k = 0
           THEN /\ changed' = FALSE
                /\ UNCHANGED <<current, rules_applied>>
           ELSE /\ rules_applied' = Append(rules_applied, optimizer.rules[k])
                /\ current' = apply_rule(current, optimizer.rules[k]).val
                /\ changed' = TRUE
    /\ UNCHANGED <<path_equations, optimizer, opt_pc, original, result>>
    /\ UNCHANGED notOpt

\* loop exit and return, lines 226-237
OptimizeReturn ==
    /\ opt_pc = "loop"
    /\ ~LoopCond(changed, iteration)
    /\ result' = [original |-> original, optimized |-> current,
                  rules_applied |-> rules_applied,
                  joins_eliminated |-> JoinsEliminated(original, current)]
    /\ opt_pc' = "done"
    /\ UNCHANGED <<path_equations, optimizer, original, current, rules_applied,
                   changed, iteration>>
    /\ UNCHANGED notOpt

OptNext ==
    \/ AddPathEquation
    \/ FromSchema
    \/ OptimizeCall
    \/ OptimizePass
    \/ OptimizeReturn

SpecOpt == Init /\ [][OptNext]_vars

(***************************************************************************)
(* One EntityData under insert and insert_with_id                          *)
(***************************************************************************)
\* the attribute maps a row is inserted with
EntAttrs == {[a \in {"n"} |-> v] : v \in {"x", "y"}}

\* EntityData::insert returns (unchecked arithmetic, or no overflow)
EntInsert ==
    /\ ent_pc = "ok"
    /\ ent_ops < MaxEntOps
    /\ \E attrs \in EntAttrs :
          LET r == EntityInsert(entity, attrs, EmptyMap)
          IN  /\ entity' = r.ed
              /\ ent_last' = [kind |-> "insert", id |-> r.id, before |-> entity]
    /\ ent_ops' = ent_ops + 1
    /\ UNCHANGED <<ent_pc, notEnt>>

\* EntityData::insert, `self.next_id += 1` panics in a checked build
EntInsertPanics ==
    /\ ent_pc = "ok"
    /\ ent_ops < MaxEntOps
    /\ SuccOverflows(entity.next_id)
    /\ ent_pc' = "panicked"
    /\ ent_ops' = ent_ops + 1
    /\ UNCHANGED <<entity, ent_last, notEnt>>

\* EntityData::insert_with_id returns
EntInsertWithId ==
    /\ ent_pc = "ok"
    /\ ent_ops < MaxEntOps
    /\ \E id \in RowIds, attrs \in EntAttrs :
          /\ entity' = EntityInsertWithId(entity, id, attrs, EmptyMap)
          /\ ent_last' = [kind |-> "insert_with_id", id |-> id, before |-> entity]
    /\ ent_ops' = ent_ops + 1
    /\ UNCHANGED <<ent_pc, notEnt>>

\* EntityData::insert_with_id, `id + 1` panics in a checked build
EntInsertWithIdPanics ==
    /\ ent_pc = "ok"
    /\ ent_ops < MaxEntOps
    /\ \E id \in RowIds : id >= entity.next_id /\ SuccOverflows(id)
    /\ ent_pc' = "panicked"
    /\ ent_ops' = ent_ops + 1
    /\ UNCHANGED <<entity, ent_last, notEnt>>

EntNext ==
    \/ EntInsert
    \/ EntInsertPanics
    \/ EntInsertWithId
    \/ EntInsertWithIdPanics

SpecEntity == Init /\ [][EntNext]_vars

(***************************************************************************)
(* Migrations: an instance is built row by row, then migrated              *)
(***************************************************************************)
\* the mappings migrated along and the schema the instance is built on: the
\* five mappings on S and on T, the mapping with a node that S lacks on T (for
\* delta) and the mapping to a node that T lacks on S (for sigma)
MigChoices ==
    (FChoices \X {"S", "T"})
        \cup {<<F_extra_node, "T">>, <<F_no_node, "S">>, <<F_two_fks, "S">>}

\* the source schema of the mapping that was fixed
MigSource == SchemaNamed(mig_F.source_schema_name)

\* the schema of the instance that is built: F's source schema or T or U
MigInstSchema == IF mig_on = "S" THEN MigSource ELSE SchemaNamed(mig_on)

\* a mapping F is fixed and an empty instance of its source schema or of T is
\* created
MigChoose ==
    /\ mig_pc = "idle"
    /\ \E c \in MigChoices : \E f \in {c[1]}, on \in {c[2]} :
          /\ mig_F' = f
          /\ mig_on' = on
          /\ mig_inst' = InstanceNew(IF on = "S" THEN SchemaNamed(f.source_schema_name)
                                      ELSE SchemaNamed(on))
    /\ mig_pc' = "build"
    /\ UNCHANGED <<mig_G, mig_rows, mig_sigma, mig_trans, mig_mid, mig_delta_in, mig_delta,
                   mig_comp, mig_direct, notMig>>

\* mappings F and G are fixed and an empty instance of U is created
CompChoose ==
    /\ mig_pc = "idle"
    /\ \E f \in FChoices, g \in GChoices :
          /\ mig_F' = f
          /\ mig_G' = g
    /\ mig_on' = "U"
    /\ mig_inst' = InstanceNew(SchemaU)
    /\ mig_pc' = "build"
    /\ UNCHANGED <<mig_rows, mig_sigma, mig_trans, mig_mid, mig_delta_in, mig_delta,
                   mig_comp, mig_direct, notMig>>

\* Instance::insert(node, attrs, fks)
MigInsert ==
    /\ mig_pc = "build"
    /\ mig_rows < MaxRows
    /\ \E node \in DOMAIN mig_inst :
          \E attrs \in PartialMaps(EdgesOfKind(MigInstSchema, node, "attr"), AttrValues),
             fks \in PartialMaps(EdgesOfKind(MigInstSchema, node, "fk"), FkValues) :
             mig_inst' = [mig_inst EXCEPT ![node] = EntityInsert(@, attrs, fks).ed]
    /\ mig_rows' = mig_rows + 1
    /\ UNCHANGED <<mig_pc, mig_on, mig_F, mig_G, mig_sigma, mig_trans, mig_mid, mig_delta_in,
                   mig_delta, mig_comp, mig_direct, notMig>>

\* the ids given to insert_with_id for the first row of an entity: one that
\* leaves a gap below it and, in an instance of T (the one delta reads), the
\* largest RowId, whose successor overflows
MigIds(on, ed) ==
    IF EntityLen(ed) = 0
    THEN {ed.next_id + 1} \cup (IF on = "T" THEN {RowIdMax} ELSE {})
    ELSE {}

\* EntityData::insert_with_id in a build with overflow checks: `id + 1` panics
\* before either map is written
InsertWithIdPanics(ed, id) == id >= ed.next_id /\ SuccOverflows(id)

\* some row of the instance has a RowId whose successor overflows: it was
\* stored by insert_with_id, which only a build without overflow checks lets
\* return
StoredUnchecked(inst) ==
    \E n \in DOMAIN inst : \E r \in EntityRowIds(inst[n]) : SuccOverflows(r)

\* the builds that insert_with_id can tell apart: with overflow checks (TRUE)
\* and without, which differ only when `id + 1` overflows; an instance that
\* holds such a row already is in the build without checks
InsertBuilds(inst, node, id) ==
    IF InsertWithIdPanics(inst[node], id) /\ ~StoredUnchecked(inst) THEN BOOLEAN ELSE {FALSE}

\* instance.data[node].insert_with_id(id, attrs, fks): the row is stored, or
\* the call panics in a checked build and leaves the entity as it was
MigInsertWithId ==
    /\ mig_pc = "build"
    /\ mig_rows < MaxRows
    /\ \E node \in DOMAIN mig_inst :
          \E id \in MigIds(mig_on, mig_inst[node]),
             attrs \in PartialMaps(EdgesOfKind(MigInstSchema, node, "attr"), AttrValues),
             fks \in PartialMaps(EdgesOfKind(MigInstSchema, node, "fk"), FkValues) :
             \E checked \in InsertBuilds(mig_inst, node, id) :
                IF checked
                THEN /\ mig_pc' = "panicked"
                     /\ UNCHANGED <<mig_inst, mig_rows>>
                ELSE /\ mig_inst' = [mig_inst EXCEPT ![node] = EntityInsertWithId(@, id, attrs, fks)]
                     /\ mig_rows' = mig_rows + 1
                     /\ UNCHANGED mig_pc
    /\ UNCHANGED <<mig_on, mig_F, mig_G, mig_sigma, mig_trans, mig_mid, mig_delta_in,
                   mig_delta, mig_comp, mig_direct, notMig>>

\* the orders of mapping.edge_mapping that sigma can tell apart: new_attrs and
\* new_fks are built per source row, so the order shows only when two edges
\* leaving the same node have the same target key; otherwise one order stands
\* for all
EdgeOrders(mapping, source_schema) ==
    LET Key(e) == IF mapping.edge_mapping[e].kind = "FkToPath"
                  THEN mapping.edge_mapping[e].path.edges
                  ELSE <<mapping.edge_mapping[e].attr_name>>
        mapped == (DOMAIN mapping.edge_mapping) \cap (DOMAIN source_schema.edges)
        clashing == {e1 \in mapped :
                        \E e2 \in mapped :
                            /\ e1 # e2
                            /\ source_schema.edges[e1].source = source_schema.edges[e2].source
                            /\ source_schema.edges[e1].kind = source_schema.edges[e2].kind
                            /\ Key(e1) = Key(e2)}
        rest == CHOOSE o \in Orders(DOMAIN mapping.edge_mapping \ clashing) : TRUE
    IN  {rest \o o : o \in Orders(clashing)}

\* sigma(F, S, T, mig_inst)
MigSigma ==
    /\ mig_pc \in {"build", "run"}
    /\ mig_on = "S"
    /\ mig_sigma = NoInstance
    /\ \E node_order \in Orders(DOMAIN mig_F.node_mapping),
          edge_order \in EdgeOrders(mig_F, MigSource),
          rows_A \in Orders(EntityRowIds(mig_inst["A"])),
          rows_C \in Orders(EntityRowIds(mig_inst["C"])) :
          \E s \in {sigma_traced(mig_F, MigSource, SchemaT, mig_inst, node_order,
                                  [n \in {"A", "C"} |-> IF n = "A" THEN rows_A ELSE rows_C],
                                  edge_order)} :
             IF s.state = "panicked"
             THEN /\ mig_pc' = "panicked"
                  /\ UNCHANGED <<mig_sigma, mig_trans>>
             ELSE /\ mig_sigma' = sigma(mig_F, MigSource, SchemaT, mig_inst, node_order,
                                        [n \in {"A", "C"} |->
                                            IF n = "A" THEN rows_A ELSE rows_C],
                                        edge_order).instance
                  /\ mig_trans' = s.id_translation
                  /\ mig_pc' = "run"
    /\ UNCHANGED <<mig_on, mig_F, mig_G, mig_inst, mig_rows, mig_mid, mig_delta_in,
                   mig_delta, mig_comp, mig_direct, notMig>>

\* the instance of T that delta(F, S, T, _) is applied to
DeltaInput ==
    CASE mig_on = "T" -> mig_inst
      [] mig_on = "S" -> mig_sigma
      [] mig_on = "U" -> mig_mid
      [] OTHER -> NoInstance

\* the orders of row_ids() that delta can tell apart: rows are copied under
\* their own RowId, so the order shows only in next_id, and only when a row
\* whose successor overflows is copied next to another row; otherwise one
\* order stands for all
DeltaRowOrders(inst) ==
    IF \E n \in DOMAIN inst :
          /\ Cardinality(EntityRowIds(inst[n])) > 1
          /\ \E r \in EntityRowIds(inst[n]) : SuccOverflows(r)
    THEN {ro \in [DOMAIN inst -> UNION {Orders(EntityRowIds(inst[n])) : n \in DOMAIN inst}] :
             \A n \in DOMAIN inst : ro[n] \in Orders(EntityRowIds(inst[n]))}
    ELSE {[n \in DOMAIN inst |-> CHOOSE o \in Orders(EntityRowIds(inst[n])) : TRUE]}

\* the build delta runs in: the one without overflow checks (FALSE) on an
\* instance stored by it; on any other instance the two builds do the same
\* and the checked one stands for both
DeltaBuilds(inst) == IF StoredUnchecked(inst) THEN {FALSE} ELSE {TRUE}

\* delta(F, S, T, _)
MigDelta ==
    /\ mig_pc \in {"build", "run"}
    /\ DeltaInput # NoInstance
    /\ mig_delta_in = NoInstance
    /\ \E row_order \in DeltaRowOrders(DeltaInput), checked \in DeltaBuilds(DeltaInput) :
          \E d \in {delta(mig_F, MigSource, SchemaT, DeltaInput, row_order, checked)} :
             IF d.state = "panicked"
             THEN /\ mig_pc' = "panicked"
                  /\ UNCHANGED <<mig_delta_in, mig_delta>>
             ELSE /\ mig_delta_in' = DeltaInput
                  /\ mig_delta' = d.instance
                  /\ mig_pc' = "run"
    /\ UNCHANGED <<mig_on, mig_F, mig_G, mig_inst, mig_rows, mig_sigma, mig_trans, mig_mid,
                   mig_comp, mig_direct, notMig>>

\* delta(G, T, U, mig_inst)
CompDeltaG ==
    /\ mig_pc \in {"build", "run"}
    /\ mig_on = "U"
    /\ mig_mid = NoInstance
    /\ \E row_order \in DeltaRowOrders(mig_inst), checked \in DeltaBuilds(mig_inst) :
          \E d \in {delta(mig_G, SchemaT, SchemaU, mig_inst, row_order, checked)} :
             IF d.state = "panicked"
             THEN /\ mig_pc' = "panicked"
                  /\ UNCHANGED mig_mid
             ELSE /\ mig_mid' = d.instance
                  /\ mig_pc' = "run"
    /\ UNCHANGED <<mig_on, mig_F, mig_G, mig_inst, mig_rows, mig_sigma, mig_trans, mig_delta_in,
                   mig_delta, mig_comp, mig_direct, notMig>>

\* compose_mappings(F, G, T)
CompCompose ==
    /\ mig_pc = "run"
    /\ mig_on = "U"
    /\ mig_delta_in # NoInstance
    /\ mig_comp.state = "none"
    /\ mig_comp' \in compose_mappings(mig_F, mig_G, SchemaT)
    /\ UNCHANGED <<mig_pc, mig_on, mig_F, mig_G, mig_inst, mig_rows, mig_sigma, mig_trans, mig_mid,
                   mig_delta_in, mig_delta, mig_direct, notMig>>

\* delta(compose_mappings(F, G, T), S, U, mig_inst)
CompDeltaDirect ==
    /\ mig_pc = "run"
    /\ mig_comp.state = "ok"
    /\ mig_direct = NoInstance
    /\ \E row_order \in DeltaRowOrders(mig_inst), checked \in DeltaBuilds(mig_inst) :
          \E d \in {delta(mig_comp.mapping, SchemaS, SchemaU, mig_inst, row_order, checked)} :
             IF d.state = "panicked"
             THEN /\ mig_pc' = "panicked"
                  /\ UNCHANGED mig_direct
             ELSE /\ mig_direct' = d.instance
                  /\ UNCHANGED mig_pc
    /\ UNCHANGED <<mig_on, mig_F, mig_G, mig_inst, mig_rows, mig_sigma, mig_trans, mig_mid,
                   mig_delta_in, mig_delta, mig_comp, notMig>>

MigNext ==
    \/ MigChoose
    \/ MigInsert
    \/ MigInsertWithId
    \/ MigSigma
    \/ MigDelta

SpecMig == Init /\ [][MigNext]_vars

CompNext ==
    \/ CompChoose
    \/ MigInsert
    \/ CompDeltaG
    \/ MigDelta
    \/ CompCompose
    \/ CompDeltaDirect

SpecCompose == Init /\ [][CompNext]_vars

(***************************************************************************)
(* Evaluation: an instance is built, then the query is evaluated as        *)
(* written and optimized                                                   *)
(***************************************************************************)
\* the schema gets its path equations, a query is written, an empty instance
\* is created
EvalChoose ==
    /\ ev_pc = "idle"
    /\ ev_eqs' \in EvalEqChoices
    /\ ev_query' \in QueryChoices
    /\ ev_inst' = InstanceNew(SchemaE)
    /\ ev_pc' = "build"
    /\ UNCHANGED <<ev_rows, ev_orders, ev_plain, ev_opt, notEval>>

\* the FK values of the rows that are queried: the RowIds of FkValues and, on
\* the rows of B, the largest RowId, which lies in the upper half of the
\* unsigned range
EvalFkValues(node) == IF node = "B" THEN FkValues \cup {RowIdMax} ELSE FkValues

\* Instance::insert(node, attrs, fks)
EvalInsert ==
    /\ ev_pc = "build"
    /\ ev_rows < MaxRows
    /\ \E node \in DOMAIN ev_inst :
          \E attrs \in PartialMaps(EdgesOfKind(SchemaE, node, "attr"), EvalValues),
             fks \in PartialMaps(EdgesOfKind(SchemaE, node, "fk"), EvalFkValues(node)) :
             ev_inst' = [ev_inst EXCEPT ![node] = EntityInsert(@, attrs, fks).ed]
    /\ ev_rows' = ev_rows + 1
    /\ UNCHANGED <<ev_pc, ev_eqs, ev_query, ev_orders, ev_plain, ev_opt, notEval>>

\* eval_query(query, source, schema); the orders in which the HashMaps of the
\* query and of the instance are iterated are fixed here
EvalQuery ==
    /\ ev_pc = "build"
    /\ \E rows_A \in Orders(EntityRowIds(ev_inst["A"])),
          rows_B \in Orders(EntityRowIds(ev_inst["B"])),
          var_orders \in [DOMAIN ev_query ->
                             UNION {Orders(DOMAIN ev_query[b].from_vars) : b \in DOMAIN ev_query}] :
          /\ \A b \in DOMAIN ev_query : var_orders[b] \in Orders(DOMAIN ev_query[b].from_vars)
          /\ ev_orders' = [var_orders |-> var_orders,
                           row_order |-> [n \in {"A", "B"} |-> IF n = "A" THEN rows_A ELSE rows_B]]
          /\ ev_plain' = eval_query(ev_query, ev_inst, SchemaE, ev_orders'.var_orders,
                                    ev_orders'.row_order)
    /\ ev_pc' = "run"
    /\ UNCHANGED <<ev_eqs, ev_query, ev_inst, ev_rows, ev_opt, notEval>>

\* eval_query_optimized(query, source, schema), in the same process: the
\* instance is the same object and the optimized query a clone, so the
\* HashMaps are iterated in the same orders
EvalQueryOptimized ==
    /\ ev_pc = "run"
    /\ ev_opt = NoEval
    /\ ev_opt' = eval_query_optimized(ev_query, ev_inst, SchemaE, ev_eqs,
                                      ev_orders.var_orders, ev_orders.row_order)
    /\ UNCHANGED <<ev_pc, ev_eqs, ev_query, ev_inst, ev_rows, ev_orders, ev_plain, notEval>>

EvalNext ==
    \/ EvalChoose
    \/ EvalInsert
    \/ EvalQuery
    \/ EvalQueryOptimized

SpecEval == Init /\ [][EvalNext]_vars

(***************************************************************************)
(* Validation: an instance is built by insert, then validated              *)
(*                                                                         *)
(*   V : A --f--> B --g--> A,  attributes n : A and k : B                  *)
(***************************************************************************)
SchemaV == Schema({"A", "B"},
                  [e \in {"f", "g", "n", "k"} |->
                      CASE e = "f" -> EdgeFk("A", "B")
                        [] e = "g" -> EdgeFk("B", "A")
                        [] e = "n" -> EdgeAttr("A")
                        [] e = "k" -> EdgeAttr("B")])

\* the path equations the schema is given: none; g after f is the identity of
\* A; f.g.f is f; the attribute k read through f is the attribute n; the last
\* two together
ValEqChoices ==
    { <<>>,
      <<Eq(Path("A", <<"f", "g">>), Path("A", <<>>))>>,
      <<Eq(Path("A", <<"f", "g", "f">>), Path("A", <<"f">>))>>,
      <<Eq(Path("A", <<"f", "k">>), Path("A", <<"n">>))>>,
      <<Eq(Path("A", <<"f", "g", "f">>), Path("A", <<"f">>)),
        Eq(Path("A", <<"f", "k">>), Path("A", <<"n">>))>> }

\* the values an attribute is inserted with
ValValues == {VInteger(1), VInteger(2)}

\* the schema gets its path equations and an empty instance is created
ValChoose ==
    /\ val_pc = "idle"
    /\ val_eqs' \in ValEqChoices
    /\ val_inst' = InstanceNew(SchemaV)
    /\ val_pc' = "build"
    /\ UNCHANGED <<val_rows, val_result, notVal>>

\* Instance::insert(node, attrs, fks)
ValInsert ==
    /\ val_pc = "build"
    /\ val_rows < MaxRows
    /\ \E node \in DOMAIN val_inst :
          \E attrs \in PartialMaps(EdgesOfKind(SchemaV, node, "attr"), ValValues),
             fks \in PartialMaps(EdgesOfKind(SchemaV, node, "fk"), FkValues) :
             val_inst' = [val_inst EXCEPT ![node] = EntityInsert(@, attrs, fks).ed]
    /\ val_rows' = val_rows + 1
    /\ UNCHANGED <<val_pc, val_eqs, val_result, notVal>>

\* validate_instance(instance, schema)
ValValidate ==
    /\ val_pc = "build"
    /\ val_result' = validate_instance(val_inst, SchemaV, val_eqs)
    /\ val_pc' = "done"
    /\ UNCHANGED <<val_eqs, val_inst, val_rows, notVal>>

ValNext ==
    \/ ValChoose
    \/ ValInsert
    \/ ValValidate

SpecVal == Init /\ [][ValNext]_vars

(***************************************************************************)
(* Composition: two mappings are written, then composed                    *)
(***************************************************************************)
\* Mapping::new, map_node, map_fk, map_attr for F and for G
CmpChoose ==
    /\ cmp_F = NoMapping
    /\ cmp_F' \in CmpFChoices
    /\ cmp_G' \in CmpGChoices
    /\ UNCHANGED <<cmp_out, notCmp>>

\* compose_mappings(F, G, target schema of F)
CmpCompose ==
    /\ cmp_F # NoMapping
    /\ cmp_out.state = "none"
    /\ cmp_out' \in compose_mappings(cmp_F, cmp_G, SchemaNamed(cmp_F.target_schema_name))
    /\ UNCHANGED <<cmp_F, cmp_G, notCmp>>

CmpNext ==
    \/ CmpChoose
    \/ CmpCompose

SpecCmp == Init /\ [][CmpNext]_vars

(***************************************************************************)
(* compare_values, called on two Values and an operator                    *)
(***************************************************************************)
\* the Values compared: every sort, two values of each, and Null
CompareValues ==
    {VInteger(0), VInteger(1), VFloat(0), VFloat(1), VString(<<>>), VString(<<97>>),
     VBoolean(FALSE), VBoolean(TRUE), VNull}

CompOps == {"Eq", "Neq", "Lt", "Gt", "Lte", "Gte"}

\* compare_values(lhs, op, rhs)
CompareCall ==
    /\ \E lhs \in CompareValues, op \in CompOps, rhs \in CompareValues :
          cv_call' = [lhs |-> lhs, op |-> op, rhs |-> rhs,
                      out |-> compare_values(lhs, op, rhs)]
    /\ UNCHANGED <<ds_call, mv_call, notCall>>

CompareNext ==
    \/ CompareCall

SpecCompare == Init /\ [][CompareNext]_vars

(***************************************************************************)
(* distinct, called on an entity of a result                               *)
(***************************************************************************)
\* the values of the attribute x: two Integers, a String and Null
DistinctValues == {VInteger(1), VInteger(2), VString(<<97>>), VNull}

RECURSIVE EntitiesOf(_)
\* the entities made by n calls of insert, each with or without a value of x
EntitiesOf(n) ==
    IF n = 0 THEN {EntityNew}
    ELSE {EntityInsert(ed, attrs, EmptyMap).ed :
             ed \in EntitiesOf(n - 1), attrs \in PartialMaps({"x"}, DistinctValues)}

\* distinct(result, entity, "x"), called once
DistinctCall ==
    /\ ds_call = NoDistinct
    /\ \E n \in 0..MaxDistinctRows :
          \E ed \in EntitiesOf(n) :
             \E row_ids \in Orders(EntityRowIds(ed)) :
                \E out \in distinct(ed, row_ids, "x") :
                   ds_call' = [entity |-> ed, row_ids |-> row_ids,
                               state |-> out.state, out |-> out.values]
    /\ UNCHANGED <<cv_call, mv_call, notCall>>

DistinctNext ==
    \/ DistinctCall

SpecDistinct == Init /\ [][DistinctNext]_vars

(***************************************************************************)
(* Mapping::validate, called on a mapping from S to T                      *)
(***************************************************************************)
\* the images of the FK e: none, an FK path from P or from Q, an attribute
FkImageChoices ==
    {FkToPath(Path(st, es)) : st \in {"P", "Q"}, es \in {<<>>, <<"m">>, <<"n">>}}
    \cup {AttrToPath(<<>>, "tq")}

\* the mappings validated: the nodes A and C mapped or not, to P, Q or a node
\* Z that T does not have; e, a and c mapped or not, as an FK or as an
\* attribute; an edge zz that S does not have mapped or not
ValidateChoices ==
    {Mapping("S", "T", nm, em) :
        nm \in PartialMaps({"A", "C"}, {"P", "Q", "Z"}),
        em \in {x \in PartialMaps({"e", "a", "c", "zz"},
                                   FkImageChoices \cup {AttrToPath(<<>>, "tp")}) :
                  /\ \A k \in DOMAIN x \cap {"a"} :
                        x[k] \in {AttrToPath(<<>>, "tp"), FkToPath(Path("P", <<>>))}
                  /\ \A k \in DOMAIN x \cap {"c", "zz"} : x[k] = AttrToPath(<<>>, "tq")}}

\* m.validate(&S, &T), called once
ValidateCall ==
    /\ mv_call = NoValidate
    /\ \E m \in ValidateChoices :
          \E out \in validate(m, SchemaS, SchemaT) :
             mv_call' = [mapping |-> m, out |-> out]
    /\ UNCHANGED <<cv_call, ds_call, notCall>>

ValidateNext ==
    \/ ValidateCall

SpecMapping == Init /\ [][ValidateNext]_vars

(***************************************************************************)
(* A schema is built by the builder calls, then validated                  *)
(***************************************************************************)
\* the equations given to add_path_equation: over the nodes A and B and the
\* edges f and n, which may have been added or not, and over a node Z and an
\* edge z that are never added
SchEqPool ==
    { Eq(Path("A", <<"f">>), Path("A", <<>>)),
      Eq(Path("A", <<"f", "f">>), Path("B", <<"n">>)),
      Eq(Path("Z", <<"f">>), Path("A", <<"z", "z">>)) }

\* Schema::add_node
SchAddNode ==
    /\ sch_pc = "ok"
    /\ sch_ops < MaxSchemaOps
    /\ \E name \in {"A", "B"} : sch_cur' = SchemaAddNode(sch_cur, name)
    /\ sch_ops' = sch_ops + 1
    /\ UNCHANGED <<sch_pc, sch_result, notSch>>

\* Schema::add_fk
SchAddFk ==
    /\ sch_pc = "ok"
    /\ sch_ops < MaxSchemaOps
    /\ \E source \in {"A", "B"}, target \in {"A", "B"} :
          /\ sch_cur' = SchemaAddFk(sch_cur, "f", source, target).schema
          /\ sch_pc' = SchemaAddFk(sch_cur, "f", source, target).state
    /\ sch_ops' = sch_ops + 1
    /\ UNCHANGED <<sch_result, notSch>>

\* Schema::add_attribute
SchAddAttribute ==
    /\ sch_pc = "ok"
    /\ sch_ops < MaxSchemaOps
    /\ \E source \in {"A", "B"} :
          /\ sch_cur' = SchemaAddAttribute(sch_cur, "n", source).schema
          /\ sch_pc' = SchemaAddAttribute(sch_cur, "n", source).state
    /\ sch_ops' = sch_ops + 1
    /\ UNCHANGED <<sch_result, notSch>>

\* Schema::add_path_equation
SchAddPathEquation ==
    /\ sch_pc = "ok"
    /\ sch_ops < MaxSchemaOps
    /\ \E eq \in SchEqPool : sch_cur' = SchemaAddPathEquation(sch_cur, eq.lhs, eq.rhs)
    /\ sch_ops' = sch_ops + 1
    /\ UNCHANGED <<sch_pc, sch_result, notSch>>

\* validate_schema(schema)
SchValidate ==
    /\ sch_pc = "ok"
    /\ sch_result' = validate_schema(sch_cur)
    /\ sch_pc' = "validated"
    /\ UNCHANGED <<sch_cur, sch_ops, notSch>>

SchNext ==
    \/ SchAddNode
    \/ SchAddFk
    \/ SchAddAttribute
    \/ SchAddPathEquation
    \/ SchValidate

SpecSchema == Init /\ [][SchNext]_vars

(***************************************************************************)
(* Properties of the optimizer                                             *)
(***************************************************************************)
\* pattern is a contiguous sub-sequence of target
Occurs(pattern, target) ==
    \E i \in 0..(Len(target) - Len(pattern)) : MatchesAt(target, pattern, i)

\* C1: whatever the rule set and the input path, optimize runs at most
\* max_iterations (100) passes over the rule list and so accepts at most 100
\* rewrites; at the 100th pass the loop is left even if the path still changes.
C1_PassCap ==
    /\ iteration <= max_iterations
    /\ Len(rules_applied) <= iteration
    /\ (opt_pc = "loop" /\ iteration = max_iterations => ~ENABLED OptimizePass)
    /\ (opt_pc = "done" => Len(result.rules_applied) <= max_iterations)

\* C1 witness: a call that was stopped by the cap: 100 passes, 100 accepted
\* rewrites, and the last pass still changed the path.
C1_CapReached ==
    /\ opt_pc = "done"
    /\ iteration = max_iterations
    /\ changed
    /\ Len(result.rules_applied) = max_iterations

\* C2 (as claimed): optimizing the left-hand side of any rule of the optimizer
\* gives a path no longer than that rule's right-hand side.
C2_LhsNoLongerThanRhs ==
    opt_pc = "done" =>
        \A k \in 1..Len(optimizer.rules) :
            original = optimizer.rules[k].lhs =>
                PathLen(result.optimized) <= PathLen(optimizer.rules[k].rhs)

\* C3 (as claimed): when optimize returns, no rule that starts where the
\* optimized path starts has its LHS edges as a contiguous sub-sequence of it.
C3_NormalForm ==
    opt_pc = "done" =>
        \A k \in 1..Len(optimizer.rules) :
            optimizer.rules[k].lhs.start = result.optimized.start =>
                ~Occurs(optimizer.rules[k].lhs.edges, result.optimized.edges)


(***************************************************************************)
(* Properties of EntityData                                                *)
(***************************************************************************)
\* C7 (as claimed): after any sequence of insert and insert_with_id calls that
\* returned, next_id is at least 1 and greater than every stored RowId; the id
\* insert returned was not stored before and no earlier row changed; and
\* insert_with_id(id) left next_id at max(previous next_id, id + 1).
C7_NextIdAboveRows ==
    ent_pc = "ok" =>
        /\ entity.next_id >= 1
        /\ \A id \in EntityRowIds(entity) : id < entity.next_id
        /\ (ent_last.kind = "insert" =>
                /\ ent_last.id \notin EntityRowIds(ent_last.before)
                /\ \A id \in EntityRowIds(ent_last.before) :
                       entity.attribute_values[id] = ent_last.before.attribute_values[id])
        /\ (ent_last.kind = "insert_with_id" =>
                entity.next_id = Max({ent_last.before.next_id, ent_last.id + 1}))

(***************************************************************************)
(* Properties of delta and sigma                                           *)
(***************************************************************************)
\* the rows of an entity with their fields, leaving next_id aside
SameRows(ed1, ed2) ==
    /\ ed1.attribute_values = ed2.attribute_values
    /\ ed1.fk_values = ed2.fk_values

RECURSIVE SumLen(_, _)
SumLen(nodes, inst) ==
    IF nodes = {} THEN 0
    ELSE LET n == CHOOSE x \in nodes : TRUE
         IN  EntityLen(inst[n]) + SumLen(nodes \ {n}, inst)

\* C8: delta preserves row identity: for every source node A with F(A) = B the
\* RowIds of A in the result are exactly the RowIds of B in the instance delta
\* was given (none when the instance has no table for B), also when several
\* source nodes have the same image.
C8_DeltaKeepsRowIds ==
    mig_delta_in # NoInstance =>
        \A A \in DOMAIN mig_F.node_mapping :
            EntityRowIds(mig_delta[A]) =
                IF mig_F.node_mapping[A] \in DOMAIN mig_delta_in
                THEN EntityRowIds(mig_delta_in[mig_F.node_mapping[A]])
                ELSE {}

\* C8 witness: A and C both go to Q, whose rows are 2 and 3 (no row 1), and
\* both come out with rows 2 and 3
C8_MergedNodesKeepIds ==
    /\ mig_on = "T"
    /\ mig_delta_in # NoInstance
    /\ mig_F.node_mapping["A"] = "Q"
    /\ mig_F.node_mapping["C"] = "Q"
    /\ EntityRowIds(mig_delta_in["Q"]) = {2, 3}
    /\ EntityRowIds(mig_delta["A"]) = {2, 3}
    /\ EntityRowIds(mig_delta["C"]) = {2, 3}

\* C9: delta never fabricates a field: a result row r of A has an FK value at
\* e (with F(e) = p) exactly when follow_path(F(A), r, p) is defined in the
\* given instance, and the value is that RowId; it has a value at an attribute
\* mapped to (fk_path, attr) exactly when the walk along fk_path succeeds and
\* the row reached has attr, and the value is the one read there; and it has
\* no other field.
C9_DeltaFieldsExact ==
    mig_delta_in # NoInstance =>
        \A A \in DOMAIN mig_F.node_mapping :
            \A r \in EntityRowIds(mig_delta[A]) :
                LET B == mig_F.node_mapping[A]
                    fks == mig_delta[A].fk_values[r]
                    attrs == mig_delta[A].attribute_values[r]
                    Walk(fk_path) == follow_path(mig_delta_in, B, r, fk_path, SchemaT)
                    Read(em) ==
                        IF Walk(em.fk_path).some
                        THEN EntityGetAttr(mig_delta_in[EndEntity(B, em.fk_path, SchemaT, 1)],
                                           Walk(em.fk_path).val, em.attr_name)
                        ELSE None
                IN  /\ DOMAIN fks \subseteq EdgesOfKind(MigSource, A, "fk")
                    /\ DOMAIN attrs \subseteq EdgesOfKind(MigSource, A, "attr")
                    /\ \A e \in EdgesOfKind(MigSource, A, "fk") :
                          mig_F.edge_mapping[e].kind = "FkToPath" =>
                              LET w == Walk(mig_F.edge_mapping[e].path.edges)
                              IN  /\ (e \in DOMAIN fks) <=> w.some
                                  /\ w.some => fks[e] = w.val
                    /\ \A e \in EdgesOfKind(MigSource, A, "attr") :
                          mig_F.edge_mapping[e].kind = "AttrToPath" =>
                              LET v == Read(mig_F.edge_mapping[e])
                              IN  /\ (e \in DOMAIN attrs) <=> v.some
                                  /\ v.some => attrs[e] = v.val

\* C9 witness: e goes to P.m.n and a to tq at the end of m; a row of P has m
\* and the walk along m.n fails, so the result row has no e, while the walk
\* along m reaches a row with tq, so it has a; a row of C has c
C9_FieldPresentAndOmitted ==
    /\ mig_on = "T"
    /\ mig_delta_in # NoInstance
    /\ mig_F = F_path
    /\ \E r \in EntityRowIds(mig_delta["A"]) :
          /\ "e" \notin DOMAIN mig_delta["A"].fk_values[r]
          /\ "a" \in DOMAIN mig_delta["A"].attribute_values[r]
          /\ "m" \in DOMAIN mig_delta_in["P"].fk_values[r]
    /\ \E r \in EntityRowIds(mig_delta["C"]) :
          "c" \in DOMAIN mig_delta["C"].attribute_values[r]

\* C10: sigma is a set union on rows: every target node B has as many rows as
\* the source nodes sent to B have together; each source row got its own RowId.
C10_SigmaCountsRows ==
    mig_sigma # NoInstance =>
        \A B \in SchemaT.nodes :
            EntityLen(mig_sigma[B]) =
                SumLen({A \in DOMAIN mig_F.node_mapping : mig_F.node_mapping[A] = B}, mig_inst)

\* C10 witness: A and C both go to Q, each has one row, and Q has two rows
C10_TwoNodesUnion ==
    /\ mig_sigma # NoInstance
    /\ mig_F.node_mapping["A"] = "Q"
    /\ mig_F.node_mapping["C"] = "Q"
    /\ EntityLen(mig_inst["A"]) = 1
    /\ EntityLen(mig_inst["C"]) = 1
    /\ EntityRowIds(mig_inst["A"]) = EntityRowIds(mig_inst["C"])
    /\ EntityLen(mig_sigma["Q"]) = 2

\* F is injective on nodes, bijective on attributes and sends each FK to one FK
PureRenaming(mapping, source_schema, target_schema) ==
    LET Attrs(sch) == {e \in DOMAIN sch.edges : sch.edges[e].kind = "attr"}
        Fks(sch) == {e \in DOMAIN sch.edges : sch.edges[e].kind = "fk"}
        em == mapping.edge_mapping
        nm == mapping.node_mapping
    IN  /\ DOMAIN nm = source_schema.nodes
        /\ \A n1, n2 \in DOMAIN nm : nm[n1] = nm[n2] => n1 = n2
        /\ DOMAIN em = DOMAIN source_schema.edges
        /\ \A e \in Fks(source_schema) :
              /\ em[e].kind = "FkToPath"
              /\ Len(em[e].path.edges) = 1
              /\ em[e].path.edges[1] \in Fks(target_schema)
              /\ target_schema.edges[em[e].path.edges[1]].source
                     = nm[source_schema.edges[e].source]
              /\ target_schema.edges[em[e].path.edges[1]].target
                     = nm[source_schema.edges[e].target]
        /\ \A e1, e2 \in Fks(source_schema) :
              em[e1].path.edges = em[e2].path.edges => e1 = e2
        /\ \A e \in Attrs(source_schema) :
              /\ em[e].kind = "AttrToPath"
              /\ em[e].fk_path = <<>>
              /\ em[e].attr_name \in Attrs(target_schema)
              /\ target_schema.edges[em[e].attr_name].source
                     = nm[source_schema.edges[e].source]
        /\ \A e1, e2 \in Attrs(source_schema) :
              em[e1].attr_name = em[e2].attr_name => e1 = e2
        /\ {em[e].attr_name : e \in Attrs(source_schema)} = Attrs(target_schema)

\* C5 (as claimed): for a pure renaming F and any instance I of S,
\* delta(F, S, T, sigma(F, S, T, I)) has in every entity the same RowIds as I
\* and in every row the same attribute values and FK values.
C5_RoundTripIsIdentity ==
    (/\ mig_on = "S"
     /\ mig_delta_in # NoInstance
     /\ PureRenaming(mig_F, MigSource, SchemaT))
        => \A A \in MigSource.nodes : SameRows(mig_delta[A], mig_inst[A])

\* c = (A, r, e) is a source row (A, r) with a value r_t at an FK e: A -> B'
\* that F sends to a path of FKs, r_t being a row of B'
SigmaFkCase(c) ==
    /\ c.row \in EntityRowIds(mig_inst[c.node])
    /\ c.edge \in EdgesOfKind(MigSource, c.node, "fk")
    /\ c.edge \in DOMAIN mig_F.edge_mapping
    /\ mig_F.edge_mapping[c.edge].kind = "FkToPath"
    /\ EntityGetFk(mig_inst[c.node], c.row, c.edge).some
    /\ EntityGetFk(mig_inst[c.node], c.row, c.edge).val
           \in EntityRowIds(mig_inst[MigSource.edges[c.edge].target])

\* all such cases of the source instance
SigmaFkCases ==
    {c \in [node : MigSource.nodes, row : RowIds, edge : DOMAIN MigSource.edges] :
        SigmaFkCase(c)}

\* the translated row of c carries the translation of c's old target under
\* the first edge name of the image path
FkInstalled(c) ==
    LET p == mig_F.edge_mapping[c.edge].path.edges
        old_target == <<MigSource.edges[c.edge].target,
                        EntityGetFk(mig_inst[c.node], c.row, c.edge).val>>
        fks == mig_sigma[mig_F.node_mapping[c.node]].fk_values[mig_trans[<<c.node, c.row>>]]
    IN  /\ p[1] \in DOMAIN fks
        /\ fks[p[1]] = mig_trans[old_target]

\* the row the migrated FK of c points to carries the attribute values of c's
\* old target, under the renamed attributes
FkTargetRenamed(c) ==
    LET p == mig_F.edge_mapping[c.edge].path.edges
        Bp == MigSource.edges[c.edge].target
        r_t == EntityGetFk(mig_inst[c.node], c.row, c.edge).val
        new_row == mig_sigma[mig_F.node_mapping[c.node]].fk_values[mig_trans[<<c.node, c.row>>]][p[1]]
        new_attrs == mig_sigma[mig_F.node_mapping[Bp]].attribute_values[new_row]
    IN  /\ new_row \in EntityRowIds(mig_sigma[mig_F.node_mapping[Bp]])
        /\ \A a \in EdgesOfKind(MigSource, Bp, "attr") :
              LET v == EntityGetAttr(mig_inst[Bp], r_t, a)
                  ta == mig_F.edge_mapping[a].attr_name
              IN  IF v.some THEN ta \in DOMAIN new_attrs /\ new_attrs[ta] = v.val
                  ELSE ta \notin DOMAIN new_attrs

\* C11 (as claimed): sigma resolves FKs through the id translation: for every
\* source row (A, r) and FK e: A -> B' with image path p (of at least one
\* edge), if r has value r_t at e and (B', r_t) is a row of the source
\* instance, the row translation(A, r) of the result carries
\* translation(B', r_t) under the first edge name of p.
C11_FkUnderFirstEdge ==
    mig_sigma # NoInstance =>
        \A c \in SigmaFkCases :
            Len(mig_F.edge_mapping[c.edge].path.edges) >= 1 => FkInstalled(c)

\* the FKs of the source row (A, r) that install a value: the cases of
\* SigmaFkCases at (A, r) whose image path has exactly one edge
SigmaInstalls(A, r) ==
    {c \in [node : {A}, row : {r}, edge : EdgesOfKind(MigSource, A, "fk")] :
        /\ SigmaFkCase(c)
        /\ Len(mig_F.edge_mapping[c.edge].path.edges) = 1}

\* the edge name under which c installs its value, and the value
SigmaKey(c) == mig_F.edge_mapping[c.edge].path.edges[1]
SigmaValue(c) ==
    mig_trans[<<MigSource.edges[c.edge].target,
                EntityGetFk(mig_inst[c.node], c.row, c.edge).val>>]

\* no other FK of the same row installs a value under the edge name of c
OnlyUnderKey(c) ==
    \A c2 \in SigmaInstalls(c.node, c.row) : SigmaKey(c2) = SigmaKey(c) => c2 = c

\* C11 (amended): the FK values of the result row translation(A, r) are
\* exactly the ones installed by the FKs e of A whose image path has one edge,
\* r having a value r_t at e and (B', r_t) being a row of the source: under
\* each such edge name the row carries translation(B', r_t) of one of the FKs
\* sent to that edge, and of e itself when e is the only one; an FK whose
\* image path has no edge or more than one installs nothing. For a pure
\* renaming the migrated FK points to the row that carries the renamed
\* attributes of the original target.
C11_FkUnderSingleEdge ==
    mig_sigma # NoInstance =>
        \A A \in MigSource.nodes :
            \A r \in EntityRowIds(mig_inst[A]) :
                LET fks == mig_sigma[mig_F.node_mapping[A]].fk_values[mig_trans[<<A, r>>]]
                    installs == SigmaInstalls(A, r)
                IN  /\ DOMAIN fks = {SigmaKey(c) : c \in installs}
                    /\ \A k \in DOMAIN fks :
                          \E c \in installs : SigmaKey(c) = k /\ fks[k] = SigmaValue(c)
                    /\ \A c \in installs :
                          OnlyUnderKey(c) =>
                              /\ FkInstalled(c)
                              /\ PureRenaming(mig_F, MigSource, SchemaT) => FkTargetRenamed(c)

\* C11 witness: under the renaming, a row of A points to a row of C that has
\* its attribute and whose RowId sigma changed; the migrated FK follows it
C11_RenamedFkFollows ==
    /\ mig_sigma # NoInstance
    /\ mig_F = F_rename
    /\ \E c \in SigmaFkCases :
          LET r_t == EntityGetFk(mig_inst[c.node], c.row, c.edge).val
          IN  /\ mig_trans[<<"C", r_t>>] # r_t
              /\ EntityGetAttr(mig_inst["C"], r_t, "c").some
              /\ FkInstalled(c)
              /\ FkTargetRenamed(c)

\* C11, an image path of two edges installs nothing: a row of A has e at a
\* row of C, e goes to P.m.n, and the translated row has no FK value
C11_LongPathInstallsNothing ==
    /\ mig_sigma # NoInstance
    /\ mig_F = F_path
    /\ \E c \in SigmaFkCases :
          DOMAIN mig_sigma["P"].fk_values[mig_trans[<<c.node, c.row>>]] = {}

\* C11, two FKs of A sent to the same edge n: a row of A has e at a row of C
\* and d at a row of A, and the translated row carries under n the
\* translation of the target of d (the value of e is lost)
C11_SharedEdgeKeepsD ==
    /\ mig_sigma # NoInstance
    /\ mig_F = F_two_fks
    /\ \E ce, cd \in SigmaFkCases :
          /\ ce.edge = "e" /\ cd.edge = "d"
          /\ ce.node = cd.node /\ ce.row = cd.row
          /\ SigmaValue(ce) # SigmaValue(cd)
          /\ mig_sigma["Q"].fk_values[mig_trans[<<cd.node, cd.row>>]]["n"] = SigmaValue(cd)

\* C11, the same with the value of e kept and the value of d lost
C11_SharedEdgeKeepsE ==
    /\ mig_sigma # NoInstance
    /\ mig_F = F_two_fks
    /\ \E ce, cd \in SigmaFkCases :
          /\ ce.edge = "e" /\ cd.edge = "d"
          /\ ce.node = cd.node /\ ce.row = cd.row
          /\ SigmaValue(ce) # SigmaValue(cd)
          /\ mig_sigma["Q"].fk_values[mig_trans[<<ce.node, ce.row>>]]["n"] = SigmaValue(ce)

(***************************************************************************)
(* Properties of compose_mappings                                          *)
(***************************************************************************)
\* the node where a sequence of FKs starting at `from` ends, if it is a path
RECURSIVE ChainEnd(_, _, _, _)
ChainEnd(schema, from, edges, i) ==
    IF i > Len(edges) THEN Some(from)
    ELSE IF /\ edges[i] \in DOMAIN schema.edges
            /\ schema.edges[edges[i]].kind = "fk"
            /\ schema.edges[edges[i]].source = from
         THEN ChainEnd(schema, schema.edges[edges[i]].target, edges, i + 1)
         ELSE None

\* the mapping is a functor on the schema graphs: nodes go to nodes, an FK
\* a : A -> B to a path of FKs from F(A) to F(B), an attribute of A to a path
\* of FKs from F(A) followed by an attribute of the node reached
WellTyped(mapping, source_schema, target_schema) ==
    LET em == mapping.edge_mapping
        nm == mapping.node_mapping
    IN  /\ DOMAIN nm = source_schema.nodes
        /\ \A n \in DOMAIN nm : nm[n] \in target_schema.nodes
        /\ DOMAIN em = DOMAIN source_schema.edges
        /\ \A e \in DOMAIN em :
              LET edge == source_schema.edges[e]
              IN  IF edge.kind = "fk"
                  THEN /\ em[e].kind = "FkToPath"
                       /\ ChainEnd(target_schema, nm[edge.source], em[e].path.edges, 1)
                              = Some(nm[edge.target])
                  ELSE /\ em[e].kind = "AttrToPath"
                       /\ em[e].attr_name \in DOMAIN target_schema.edges
                       /\ target_schema.edges[em[e].attr_name].kind = "attr"
                       /\ ChainEnd(target_schema, nm[edge.source], em[e].fk_path, 1)
                              = Some(target_schema.edges[em[e].attr_name].source)

\* every FK value of the instance is a row of the FK's target entity
NoDanglingFk(inst, schema) ==
    \A n \in DOMAIN inst : \A r \in EntityRowIds(inst[n]) :
        \A k \in DOMAIN inst[n].fk_values[r] :
            inst[n].fk_values[r][k] \in EntityRowIds(inst[schema.edges[k].target])

\* both migrations of the instance of U have been run
BothMigrated ==
    /\ mig_on = "U"
    /\ mig_delta_in # NoInstance
    /\ mig_comp.state = "ok"
    /\ mig_direct # NoInstance

\* C6 (as claimed): whenever compose_mappings(F, G) succeeds, for any instance
\* I_U the single migration delta(compose_mappings(F, G), S, U, I_U) has, in
\* every entity of S, the same rows, attribute values and FK values as the
\* sequential migration delta(F, S, T, delta(G, T, U, I_U)).
C6_ComposeEqualsSequential ==
    BothMigrated => \A A \in SchemaS.nodes : SameRows(mig_direct[A], mig_delta[A])

\* C6 (amended): the same equality, for mappings F and G that are well typed
\* and an instance I_U without dangling FK values.
C6_ComposeEqualsSequentialTyped ==
    (/\ BothMigrated
     /\ WellTyped(mig_F, SchemaS, SchemaT)
     /\ WellTyped(mig_G, SchemaT, SchemaU)
     /\ NoDanglingFk(mig_inst, SchemaU))
        => \A A \in SchemaS.nodes : SameRows(mig_direct[A], mig_delta[A])

\* C6 witness: F sends e to the two-FK path m.n and a to tq after m, G renames;
\* the two migrations agree on a row of A that has both fields
C6_TwoHopAgree ==
    /\ BothMigrated
    /\ mig_F = F_path
    /\ mig_G = G_rename
    /\ NoDanglingFk(mig_inst, SchemaU)
    /\ \E r \in EntityRowIds(mig_direct["A"]) :
          /\ "e" \in DOMAIN mig_direct["A"].fk_values[r]
          /\ "a" \in DOMAIN mig_direct["A"].attribute_values[r]
    /\ \A A \in SchemaS.nodes : SameRows(mig_direct[A], mig_delta[A])

(***************************************************************************)
(* Properties of the evaluator                                             *)
(***************************************************************************)
\* every row has a value for every FK of its entity, and the value is a row of
\* the FK's target
FkTotal(inst, schema) ==
    /\ NoDanglingFk(inst, schema)
    /\ \A n \in DOMAIN inst : \A r \in EntityRowIds(inst[n]) :
          EdgesOfKind(schema, n, "fk") \subseteq DOMAIN inst[n].fk_values[r]

\* both sides of every path equation lead every row of the start entity to
\* the same row
SatisfiesEquations(inst, schema, eqs) ==
    \A k \in DOMAIN eqs : \A r \in EntityRowIds(inst[eqs[k].lhs.start]) :
        LET l == follow_path(inst, eqs[k].lhs.start, r, eqs[k].lhs.edges, schema)
            rr == follow_path(inst, eqs[k].rhs.start, r, eqs[k].rhs.edges, schema)
        IN  l.some /\ rr.some /\ l.val = rr.val

\* C4 (as claimed): on an instance that satisfies FK totality and every path
\* equation, eval_query_optimized has the same outcome as eval_query: both
\* succeed or both fail, and on success rows_scanned, rows_returned and the
\* projected rows are the same.
C4_OptimizedSameOutcome ==
    (/\ ev_opt # NoEval
     /\ FkTotal(ev_inst, SchemaE)
     /\ SatisfiesEquations(ev_inst, SchemaE, ev_eqs))
        => ev_opt = ev_plain

(***************************************************************************)
(* Properties of CqlQuery::optimize                                        *)
(***************************************************************************)
\* the PathOptimizer's result for a path of a FROM variable, when the path has
\* two edges or more; the path itself otherwise
RewrittenPath(rules, from_vars, var, path) ==
    IF Len(path) >= 2 /\ var \in DOMAIN from_vars
    THEN optimize_path(rules, Path(from_vars[var], path)).edges
    ELSE path

\* block `after` is block `before` with every path of a WHERE clause, of an
\* attribute binding and of an FK binding rewritten, and nothing else changed
BlockRewritten(rules, before, after) ==
    /\ after.target_entity = before.target_entity
    /\ after.from_vars = before.from_vars
    /\ DOMAIN after.where_clauses = DOMAIN before.where_clauses
    /\ \A c \in DOMAIN before.where_clauses :
          after.where_clauses[c] =
              [before.where_clauses[c] EXCEPT
                  !.path1 = RewrittenPath(rules, before.from_vars,
                                          before.where_clauses[c].var1, @),
                  !.path2 = RewrittenPath(rules, before.from_vars,
                                          before.where_clauses[c].var2, @)]
    /\ DOMAIN after.attribute_bindings = DOMAIN before.attribute_bindings
    /\ \A a \in DOMAIN before.attribute_bindings :
          after.attribute_bindings[a] =
              [before.attribute_bindings[a] EXCEPT
                  !.path = RewrittenPath(rules, before.from_vars,
                                         before.attribute_bindings[a].from_var, @)]
    /\ DOMAIN after.fk_bindings = DOMAIN before.fk_bindings
    /\ \A f \in DOMAIN before.fk_bindings :
          after.fk_bindings[f] =
              [before.fk_bindings[f] EXCEPT
                  !.path = RewrittenPath(rules, before.from_vars,
                                         before.fk_bindings[f].from_var, @)]

\* C12 (as claimed): query.optimize(schema) replaces every path of length >= 2
\* of a WHERE clause (Comparison or PathEqual) and of a binding (attribute or
\* FK) by the PathOptimizer's result for the path anchored at the entity of
\* its variable, and changes nothing else in the query.
C12_OptimizeRewritesEveryPath ==
    (ev_opt # NoEval /\ from_schema(ev_eqs).state # "panicked") =>
        /\ DOMAIN QueryOptimize(from_schema(ev_eqs).rules, ev_query) = DOMAIN ev_query
        /\ \A b \in DOMAIN ev_query :
              BlockRewritten(from_schema(ev_eqs).rules, ev_query[b],
                             QueryOptimize(from_schema(ev_eqs).rules, ev_query)[b])

(***************************************************************************)
(* Properties of the optimize loop                                         *)
(***************************************************************************)
\* the sum of len(lhs) - len(rhs) over a trace of applied rules
RECURSIVE LenDrop(_, _)
LenDrop(rs, k) ==
    IF k > Len(rs) THEN 0
    ELSE PathLen(rs[k].lhs) - PathLen(rs[k].rhs) + LenDrop(rs, k + 1)

\* C13: every rewrite the loop accepted replaced the path by one that is no
\* longer (the applied rule has len(lhs) >= len(rhs) and the path lost exactly
\* that many edges), so that on return optimized.len() <= original.len() and
\* joins_eliminated = original.len() - optimized.len() = the sum of
\* len(lhs) - len(rhs) over rules_applied.
C13_RewritesNeverLengthen ==
    /\ opt_pc \in {"loop", "done"} =>
          /\ \A k \in 1..Len(rules_applied) :
                PathLen(rules_applied[k].rhs) <= PathLen(rules_applied[k].lhs)
          /\ PathLen(current) = PathLen(original) - LenDrop(rules_applied, 1)
          /\ PathLen(current) <= PathLen(original)
    /\ opt_pc = "done" =>
          /\ PathLen(result.optimized) <= PathLen(result.original)
          /\ result.joins_eliminated =
                PathLen(result.original) - PathLen(result.optimized)
          /\ result.joins_eliminated = LenDrop(result.rules_applied, 1)

\* C13 witness: a call that returned after two or more rewrites, one of which
\* kept the length and one of which shortened the path.
C13_MixedTrace ==
    /\ opt_pc = "done"
    /\ Len(result.rules_applied) >= 2
    /\ \E k \in 1..Len(result.rules_applied) :
          PathLen(result.rules_applied[k].lhs) = PathLen(result.rules_applied[k].rhs)
    /\ \E k \in 1..Len(result.rules_applied) :
          PathLen(result.rules_applied[k].lhs) > PathLen(result.rules_applied[k].rhs)
    /\ result.joins_eliminated > 0

\* a rule of the optimizer that starts where p starts and whose LHS edges
\* occur in p's edges
SomeRuleMatches(rules, p) ==
    \E k \in 1..Len(rules) :
        /\ rules[k].lhs.start = p.start
        /\ Occurs(rules[k].lhs.edges, p.edges)

\* C14: when no rule that starts at p.start has its LHS edges as a contiguous
\* sub-sequence of p's edges (always so when the schema has no equation),
\* optimize(p) returns p itself, joins_eliminated = 0 and an empty trace.
C14_NoMatchIsIdentity ==
    (opt_pc = "done" /\ ~SomeRuleMatches(optimizer.rules, result.original)) =>
        /\ result.optimized = result.original
        /\ result.joins_eliminated = 0
        /\ result.rules_applied = <<>>

\* C14 witness: a call on a path of two or more edges that returned unchanged
\* although the optimizer holds rules, none of which applies to the path.
C14_NonEmptyRulesNoMatch ==
    /\ opt_pc = "done"
    /\ Len(optimizer.rules) >= 2
    /\ PathLen(result.original) >= 2
    /\ ~SomeRuleMatches(optimizer.rules, result.original)
    /\ \E k \in 1..Len(optimizer.rules) :
          /\ optimizer.rules[k].lhs.start # result.original.start
    /\ result.optimized = result.original

(***************************************************************************)
(* Properties of the evaluator                                             *)
(***************************************************************************)
\* the Cartesian product of the FROM variables' rows, as bindings
BlockBindings(block, source) ==
    LET rows(v) == IF block.from_vars[v] \in DOMAIN source
                   THEN EntityRowIds(source[block.from_vars[v]]) ELSE {}
        all == UNION {rows(v) : v \in DOMAIN block.from_vars}
    IN  {[v \in DOMAIN block.from_vars |-> <<block.from_vars[v], t[v]>>] :
            t \in {u \in [DOMAIN block.from_vars -> all] :
                      \A v \in DOMAIN block.from_vars : u[v] \in rows(v)}}

\* every WHERE clause of the block holds under the binding
AllClausesHold(block, binding, source, schema) ==
    \A i \in DOMAIN block.where_clauses :
        WhereClause(block.where_clauses[i], binding, source, schema) = Ok(TRUE)

PassingBindings(block, source, schema) ==
    {bd \in BlockBindings(block, source) : AllClausesHold(block, bd, source, schema)}

\* the counts of a block evaluated to r
BlockCounts(r, block, source, schema) ==
    r.ok =>
        /\ EntityLen(r.result) = Cardinality(PassingBindings(block, source, schema))
        /\ r.returned = EntityLen(r.result)
        /\ r.scanned = Cardinality(BlockBindings(block, source))

\* C15: for every block that evaluates successfully, the rows inserted into
\* its result entity are as many as the tuples of the Cartesian product of
\* the FROM variables' rows for which every WHERE clause holds, and the
\* scanned count is the size of the whole product; the entity stored in a
\* successful EvalResult under the block's target (by the last block that
\* declares it) has that many rows.
C15_RowsArePassingTuples ==
    ev_pc = "run" =>
        \A b \in DOMAIN ev_query :
            /\ BlockCounts(eval_block(ev_query[b], ev_inst, SchemaE,
                                      ev_orders.var_orders[b], ev_orders.row_order),
                           ev_query[b], ev_inst, SchemaE)
            /\ (/\ ev_plain.state = "ok"
                /\ \A c \in DOMAIN ev_query :
                      c > b => ev_query[c].target_entity # ev_query[b].target_entity) =>
                  EntityLen(ev_plain.instance[ev_query[b].target_entity]) =
                      Cardinality(PassingBindings(ev_query[b], ev_inst, SchemaE))

\* C15 witness: a successful evaluation of two blocks over two rows of A: the
\* first block inserts one row and filters the other out, the second block
\* filters both out; four tuples are scanned.
C15_SomePassSomeFiltered ==
    /\ ev_pc = "run"
    /\ ev_query = Q_two_blocks
    /\ ev_plain.state = "ok"
    /\ EntityLen(ev_inst["A"]) = 2
    /\ EntityLen(ev_plain.instance["R"]) = 1
    /\ EntityLen(ev_plain.instance["S"]) = 0
    /\ ev_plain.rows_returned = 1
    /\ ev_plain.rows_scanned = 4

\* clause i of the block is reached under the binding: every earlier clause
\* was resolved and holds
ClauseReached(block, binding, source, schema, i) ==
    \A j \in 1..(i - 1) :
        WhereClause(block.where_clauses[j], binding, source, schema) = Ok(TRUE)

\* a clause that is reached cannot be resolved, or every clause holds and an
\* attribute or FK binding cannot be resolved
ReachedMiss(block, binding, source, schema) ==
    \/ \E i \in DOMAIN block.where_clauses :
          /\ ClauseReached(block, binding, source, schema, i)
          /\ ~WhereClause(block.where_clauses[i], binding, source, schema).ok
    \/ /\ AllClausesHold(block, binding, source, schema)
       /\ \/ \E a \in DOMAIN block.attribute_bindings :
                ~eval_attribute_binding(block.attribute_bindings[a], binding,
                                        source, schema).ok
          \/ \E f \in DOMAIN block.fk_bindings :
                ~eval_fk_binding(block.fk_bindings[f], binding, source, schema).ok

\* a clause is false and a later clause of the list cannot be resolved
MissBehindFalseClause(block, binding, source, schema) ==
    \E i, j \in DOMAIN block.where_clauses :
        /\ i < j
        /\ ClauseReached(block, binding, source, schema, i)
        /\ WhereClause(block.where_clauses[i], binding, source, schema) = Ok(FALSE)
        /\ ~WhereClause(block.where_clauses[j], binding, source, schema).ok

\* C20: eval_query fails exactly when, for some tuple of some block, a clause
\* that is reached in declared order (all earlier clauses hold) or, all
\* clauses holding, a binding cannot be resolved; a miss behind a false
\* clause is never looked at.  A failure carries no result: no instance and
\* no counts, whatever earlier tuples and blocks inserted; a success carries
\* one entity per block.
C20_FirstReachedMissFails ==
    ev_pc = "run" =>
        /\ ev_plain.state \in {"ok", "err"}
        /\ ev_plain.state = "err" <=>
              \E b \in DOMAIN ev_query :
                  \E bd \in BlockBindings(ev_query[b], ev_inst) :
                      ReachedMiss(ev_query[b], bd, ev_inst, SchemaE)
        /\ ev_plain.state = "err" =>
              /\ ev_plain.instance = EmptyMap
              /\ ev_plain.rows_scanned = 0
              /\ ev_plain.rows_returned = 0
        /\ ev_plain.state = "ok" =>
              DOMAIN ev_plain.instance =
                  {ev_query[b].target_entity : b \in DOMAIN ev_query}

\* C20 witness: the evaluation succeeded although, for a tuple of the second
\* block, the clause behind a false clause cannot be resolved (the row has no
\* value for the first FK of the path).
C20_MissBehindFalseClause ==
    /\ ev_pc = "run"
    /\ ev_query = Q_two_blocks
    /\ ev_plain.state = "ok"
    /\ \E bd \in BlockBindings(ev_query[2], ev_inst) :
          MissBehindFalseClause(ev_query[2], bd, ev_inst, SchemaE)

\* a failure in the second block after the first block inserted a row
C20_FailsAfterFirstBlock ==
    /\ ev_pc = "run"
    /\ ev_query = Q_two_blocks
    /\ ev_plain.state = "err"
    /\ eval_block(ev_query[1], ev_inst, SchemaE, ev_orders.var_orders[1],
                  ev_orders.row_order).returned >= 1

(***************************************************************************)
(* Properties of validate_instance                                         *)
(***************************************************************************)
\* the FK value of the row was given to insert
FkProvided(inst, entity_name, row_id, name) ==
    name \in DOMAIN inst[entity_name].fk_values[row_id]

\* the findings about FKs
FkFindings(errors) == {e \in errors : e.kind \in {"missing_fk", "dangling_fk"}}

\* C16: for an instance built by insert alone, a missing-FK finding is
\* reported for exactly the pairs (row, FK leaving the row's entity) whose
\* value was omitted at insertion, a dangling-target finding for exactly the
\* provided values that name no row of the FK's target entity, and no FK
\* finding for any other pair; all the findings are in the one result, which
\* is Ok exactly when there is none.
C16_FkFindingsExact ==
    val_pc = "done" =>
        /\ \A entity_name \in DOMAIN val_inst :
              \A row_id \in EntityRowIds(val_inst[entity_name]) :
                 \A name \in EdgesOfKind(SchemaV, entity_name, "fk") :
                    /\ MissingFk(entity_name, row_id, name) \in val_result.errors
                          <=> ~FkProvided(val_inst, entity_name, row_id, name)
                    /\ (\E e \in val_result.errors :
                           /\ e.kind = "dangling_fk"
                           /\ e.entity = entity_name /\ e.row = row_id /\ e.fk = name)
                          <=> /\ FkProvided(val_inst, entity_name, row_id, name)
                              /\ val_inst[entity_name].fk_values[row_id][name] \notin
                                    EntityRowIds(val_inst[SchemaV.edges[name].target])
        /\ \A e \in FkFindings(val_result.errors) :
              /\ e.entity \in DOMAIN val_inst
              /\ e.row \in EntityRowIds(val_inst[e.entity])
              /\ e.fk \in EdgesOfKind(SchemaV, e.entity, "fk")
              /\ e.kind = "dangling_fk" =>
                    /\ e.target = SchemaV.edges[e.fk].target
                    /\ e.target_row = val_inst[e.entity].fk_values[e.row][e.fk]
        /\ \A e \in val_result.errors : e.kind # "unknown_entity"
        /\ val_result.state = "Ok" <=> val_result.errors = {}
        /\ val_result.state \in {"Ok", "Err"}

\* C16 witness: one validation that reports both a missing FK (a row of B
\* inserted without g) and a dangling one (a row of A whose f names a row of
\* B that does not exist).
C16_MissingAndDangling ==
    /\ val_pc = "done"
    /\ val_result.state = "Err"
    /\ \E e \in val_result.errors : e.kind = "missing_fk" /\ e.entity = "B"
    /\ \E e \in val_result.errors : e.kind = "dangling_fk" /\ e.entity = "A"

\* the path ends in an attribute of the schema
EndsInAttribute(p, schema) ==
    /\ p.edges # <<>>
    /\ p.edges[Len(p.edges)] \in DOMAIN schema.edges
    /\ schema.edges[p.edges[Len(p.edges)]].kind = "attr"

\* the attribute Value reached from the row along a path that ends in an
\* attribute: the FKs are followed, then the attribute is read
AttributeReached(inst, p, row_id, schema) ==
    ResolveAttribute(follow_fks(p.start, row_id, SubSeq(p.edges, 1, Len(p.edges) - 1),
                                inst, schema),
                     p.edges[Len(p.edges)], inst)

\* the two sides of the equation, evaluated from the row, differ
SidesDiffer(inst, eq, row_id, schema) ==
    IF EndsInAttribute(eq.lhs, schema) /\ EndsInAttribute(eq.rhs, schema)
    THEN AttributeReached(inst, eq.lhs, row_id, schema)
            # AttributeReached(inst, eq.rhs, row_id, schema)
    ELSE follow_path(inst, eq.lhs.start, row_id, eq.lhs.edges, schema)
            # follow_path(inst, eq.rhs.start, row_id, eq.rhs.edges, schema)

MismatchReported(errors, i, row_id) ==
    \E e \in errors : e.kind = "equation" /\ e.eq = i /\ e.row = row_id

\* C17 (as claimed): for each path equation and each row of its start entity,
\* a mismatch is reported for the row exactly when the two sides evaluated
\* from the row differ: the attribute Values reached when both sides end in
\* an attribute, the final RowIds when both end in an FK.
C17_MismatchIffSidesDiffer ==
    val_pc = "done" =>
        \A i \in DOMAIN val_eqs :
            \A row_id \in EntityRowIds(val_inst[val_eqs[i].lhs.start]) :
                MismatchReported(val_result.errors, i, row_id)
                    <=> SidesDiffer(val_inst, val_eqs[i], row_id, SchemaV)

(***************************************************************************)
(* Properties of compose_mappings as a function of F and G                 *)
(***************************************************************************)
\* the concatenation of G's image edges of the edges es[i..]
RECURSIVE ConcatImages(_, _, _)
ConcatImages(g, es, i) ==
    IF i > Len(es) THEN <<>>
    ELSE g.edge_mapping[es[i]].path.edges \o ConcatImages(g, es, i + 1)

\* the FKs of the source schema that F maps
MappedFks(f) == {e \in DOMAIN f.edge_mapping : f.edge_mapping[e].kind = "FkToPath"}

\* C18 (as claimed): the mapping compose_mappings returns sends every source
\* node n to G(F(n)) and every source FK e : A -> B', whose image under F has
\* the edges e_1..e_k, to the path that starts at G(F(A)) and whose edges are
\* the concatenation of G's image edges of e_1..e_k, whether or not the
\* schemas share node names.
C18_ComposeIsFunctorComposite ==
    cmp_out.state = "ok" =>
        /\ DOMAIN cmp_out.mapping.node_mapping = DOMAIN cmp_F.node_mapping
        /\ \A n \in DOMAIN cmp_F.node_mapping :
              cmp_out.mapping.node_mapping[n] = cmp_G.node_mapping[cmp_F.node_mapping[n]]
        /\ \A e \in MappedFks(cmp_F) :
              /\ cmp_out.mapping.edge_mapping[e].kind = "FkToPath"
              /\ cmp_out.mapping.edge_mapping[e].path.edges =
                    ConcatImages(cmp_G, cmp_F.edge_mapping[e].path.edges, 1)
              /\ cmp_out.mapping.edge_mapping[e].path.start =
                    cmp_G.node_mapping[cmp_F.node_mapping[
                        SchemaNamed(cmp_F.source_schema_name).edges[e].source]]

\* G has no image, or an image of the wrong kind, for an edge F's image of
\* src_edge goes through
BadIntermediateEdge(f, g, src_edge) ==
    LET fm == f.edge_mapping[src_edge]
        fks == IF fm.kind = "FkToPath" THEN fm.path.edges ELSE fm.fk_path
    IN  \/ \E i \in DOMAIN fks :
              \/ fks[i] \notin DOMAIN g.edge_mapping
              \/ g.edge_mapping[fks[i]].kind # "FkToPath"
        \/ /\ fm.kind = "AttrToPath"
           /\ \/ fm.attr_name \notin DOMAIN g.edge_mapping
              \/ g.edge_mapping[fm.attr_name].kind # "AttrToPath"

\* the conditions under which an error is to be returned
ComposeMustFail(f, g) ==
    \/ f.target_schema_name # g.source_schema_name
    \/ \E n \in DOMAIN f.node_mapping : f.node_mapping[n] \notin DOMAIN g.node_mapping
    \/ \E e \in DOMAIN f.edge_mapping : BadIntermediateEdge(f, g, e)

\* C19 (as claimed): compose_mappings returns a mapping or an error and never
\* aborts; the error is returned exactly when the schema names differ, G has
\* no image for an intermediate node or edge, or G maps an intermediate edge
\* with the wrong kind; an FK whose image under F is an empty (identity) path
\* is composed to an empty path.
C19_ComposeNeverAborts ==
    cmp_out.state # "none" =>
        /\ cmp_out.state \in {"ok", "err"}
        /\ cmp_out.state = "err" <=> ComposeMustFail(cmp_F, cmp_G)
        /\ cmp_out.state = "ok" =>
              \A e \in MappedFks(cmp_F) :
                  cmp_F.edge_mapping[e].path.edges = <<>> =>
                      cmp_out.mapping.edge_mapping[e].path.edges = <<>>

(***************************************************************************)
(* Properties of compare_values                                            *)
(***************************************************************************)
\* C21: a comparison with Null on either side, Null against Null included,
\* is false for =, <, >, <=, >= and true for !=, whatever the sort of the
\* other operand.
C21_NullComparesFalse ==
    (cv_call.op # "none" /\ (cv_call.lhs = VNull \/ cv_call.rhs = VNull)) =>
        (cv_call.out <=> cv_call.op = "Neq")

\* C21 witness: Null was compared with a value of another sort with !=, and
\* the answer was true.
C21_NullNeqValue ==
    /\ cv_call.op = "Neq"
    /\ cv_call.lhs = VNull
    /\ cv_call.rhs = VInteger(0)
    /\ cv_call.out

(***************************************************************************)
(* Properties of the schema builder and validate_schema                    *)
(***************************************************************************)
\* every edge leaves a present node and every FK arrives at one
EdgesWellFormed(s) ==
    \A e \in DOMAIN s.edges :
        /\ s.edges[e].source \in s.nodes
        /\ s.edges[e].kind = "fk" => s.edges[e].target \in s.nodes

\* the references of a path that name no node or edge of the schema
OffendingRefs(s, p) ==
    (IF p.start \notin s.nodes THEN 1 ELSE 0)
    + Cardinality({k \in DOMAIN p.edges : p.edges[k] \notin DOMAIN s.edges})

RECURSIVE OffendingTotal(_, _)
OffendingTotal(s, i) ==
    IF i > Len(s.path_equations) THEN 0
    ELSE OffendingRefs(s, s.path_equations[i].lhs)
         + OffendingRefs(s, s.path_equations[i].rhs)
         + OffendingTotal(s, i + 1)

\* C22: after any builder calls, every edge's source and every FK's target is
\* a present node, a call naming an absent node having failed without adding
\* the edge; so validate_schema on the schema has no finding about edges, is
\* Ok exactly when every path equation starts at present nodes and uses
\* present edges only, and otherwise holds one finding per offending reference.
C22_BuilderKeepsEdgesWellFormed ==
    /\ EdgesWellFormed(sch_cur)
    /\ sch_pc = "validated" =>
          /\ sch_result.edge_findings = {}
          /\ sch_result.state = "Ok" <=> OffendingTotal(sch_cur, 1) = 0
          /\ sch_result.state \in {"Ok", "Err"}
          /\ Len(sch_result.eq_findings) = OffendingTotal(sch_cur, 1)

\* C22 witness: a schema with an FK and an equation that names an absent node
\* once and an absent edge twice was validated: three findings.
C22_ThreeFindings ==
    /\ sch_pc = "validated"
    /\ "f" \in DOMAIN sch_cur.edges
    /\ Len(sch_cur.path_equations) = 1
    /\ sch_result.state = "Err"
    /\ Len(sch_result.eq_findings) = 3

\* a builder call failed on an absent node
C22_BuilderPanicked ==
    /\ sch_pc = "panicked"
    /\ sch_cur.nodes = {"A"}
    /\ sch_cur.edges = EmptyMap

(***************************************************************************)
(* Properties of distinct                                                  *)
(***************************************************************************)
\* the values the attribute takes over the rows of the entity
ValuesTaken(ed, attr) ==
    {ed.attribute_values[r][attr] :
        r \in {x \in EntityRowIds(ed) : attr \in DOMAIN ed.attribute_values[x]}}

\* C23 (as claimed): the list distinct returns holds no value twice and holds
\* exactly the values the attribute takes over the rows of the entity, for any
\* mix of sorts in the attribute, Null included.
C23_DistinctHasNoDuplicate ==
    /\ \A i, j \in DOMAIN ds_call.out : ds_call.out[i] = ds_call.out[j] => i = j
    /\ {ds_call.out[k] : k \in DOMAIN ds_call.out} = ValuesTaken(ds_call.entity, "x")

(***************************************************************************)
(* Derived rules of from_schema                                            *)
(***************************************************************************)
IsPrefix(a, b) == Len(a) <= Len(b) /\ a = SubSeq(b, 1, Len(a))

\* the rule the pair (i, j) of base rules stands for when rhs(r1) is a
\* non-empty prefix of lhs(r2) from the same start and the composite shortens
PrefixPairs(base) ==
    {<<i, j>> \in (1..Len(base)) \X (1..Len(base)) :
        /\ i # j
        /\ base[i].rhs.start = base[j].lhs.start
        /\ base[i].rhs.edges # <<>>
        /\ IsPrefix(base[i].rhs.edges, base[j].lhs.edges)
        /\ Len(base[i].lhs.edges) + Len(base[j].lhs.edges) - Len(base[i].rhs.edges)
              > PathLen(base[j].rhs)}

PrefixRule(base, i, j) ==
    Rule(Path(base[i].lhs.start,
              base[i].lhs.edges \o SubSeq(base[j].lhs.edges, Len(base[i].rhs.edges) + 1,
                                          Len(base[j].lhs.edges))),
         base[j].rhs, <<"derived", i - 1, j - 1>>)

BaseOf(rules) == SubSeq(rules, 1, Len(path_equations))

DerivedOf(rules) == {rules[k] : k \in (Len(path_equations) + 1)..Len(rules)}

\* C24: when from_schema returns, the derived rules are exactly the rules
\* lhs(r1).suffix(lhs(r2)) => rhs(r2) of the pairs of distinct base rules
\* where rhs(r1), of any length >= 1, is a prefix of lhs(r2) from the same
\* start and the composite is strictly longer than rhs(r2).
C24_DerivedExactlyPrefixPairs ==
    optimizer.state = "built" =>
        DerivedOf(optimizer.rules)
          = {PrefixRule(BaseOf(optimizer.rules), p[1], p[2]) :
                p \in PrefixPairs(BaseOf(optimizer.rules))}

\* C28: from_schema returns an optimizer for every list of path equations.
C28_FromSchemaNeverAborts == optimizer.state # "panicked"

(***************************************************************************)
(* Base rules of from_schema                                               *)
(***************************************************************************)
\* l is the side of an equation between l and r that a rule rewrites from
IsLargerSide(l, r) ==
    \/ PathLen(l) > PathLen(r)
    \/ PathLen(l) = PathLen(r) /\ ~StrGt(PathDisplay(r), PathDisplay(l))

\* the rule is the equation between l and r read from its larger side
OrientedFrom(rule, l, r) ==
    \/ rule.lhs = l /\ rule.rhs = r /\ IsLargerSide(l, r)
    \/ rule.lhs = r /\ rule.rhs = l /\ IsLargerSide(r, l)

\* C25: when from_schema returns, the k-th rule is the one base rule of the
\* k-th path equation and no other rule is a base rule; its LHS is the longer
\* side or, for equal lengths, the side with the larger printed form; listing
\* the equation's sides the other way round gives the same rule; and every
\* rule, base or derived, has len(lhs) >= len(rhs).
C25_BaseRulesOriented ==
    optimizer.state = "built" =>
        /\ Len(optimizer.rules) >= Len(path_equations)
        /\ \A k \in 1..Len(optimizer.rules) :
              (optimizer.rules[k].name[1] = "eq") <=> (k <= Len(path_equations))
        /\ \A k \in 1..Len(path_equations) :
              /\ optimizer.rules[k].name = <<"eq", k - 1>>
              /\ OrientedFrom(optimizer.rules[k],
                              path_equations[k].lhs, path_equations[k].rhs)
              /\ BaseRule(Eq(path_equations[k].rhs, path_equations[k].lhs), k - 1)
                    = optimizer.rules[k]
        /\ \A k \in 1..Len(optimizer.rules) :
              PathLen(optimizer.rules[k].lhs) >= PathLen(optimizer.rules[k].rhs)

\* C25 witness: an optimizer built from an equal-length equation listed with
\* its smaller side first (the rule is turned around) and an equation listed
\* with its larger side first, with a derived rule next to the base rules.
C25_TurnedAndKept ==
    /\ optimizer.state = "built"
    /\ Len(optimizer.rules) > Len(path_equations)
    /\ \E k \in 1..Len(path_equations) :
          /\ PathLen(path_equations[k].lhs) = PathLen(path_equations[k].rhs)
          /\ optimizer.rules[k].lhs = path_equations[k].rhs
          /\ optimizer.rules[k].lhs # path_equations[k].lhs
    /\ \E k \in 1..Len(path_equations) :
          optimizer.rules[k].lhs = path_equations[k].lhs

(***************************************************************************)
(* Mapping::validate                                                       *)
(***************************************************************************)
\* the node a path of FKs of the schema arrives at, "" when an edge of the
\* path is not an FK of the schema leaving the node reached so far
RECURSIVE ArrivesAt(_, _, _, _)
ArrivesAt(from, edges, schema, i) ==
    IF i > Len(edges) THEN from
    ELSE IF /\ edges[i] \in DOMAIN schema.edges
            /\ schema.edges[edges[i]].kind = "fk"
            /\ schema.edges[edges[i]].source = from
         THEN ArrivesAt(schema.edges[edges[i]].target, edges, schema, i + 1)
         ELSE ""

\* m maps source to target as a functor does
IsFunctor(m, source, target) ==
    /\ is_complete(m, source)
    /\ \A n \in DOMAIN m.node_mapping : m.node_mapping[n] \in target.nodes
    /\ \A e \in DOMAIN source.edges :
          IF source.edges[e].kind = "attr"
          THEN m.edge_mapping[e].kind = "AttrToPath"
          ELSE /\ m.edge_mapping[e].kind = "FkToPath"
               /\ m.edge_mapping[e].path.start = m.node_mapping[source.edges[e].source]
               /\ ArrivesAt(m.edge_mapping[e].path.start, m.edge_mapping[e].path.edges,
                            target, 1) = m.node_mapping[source.edges[e].target]

\* C26: validate returns Ok only for a functor: the mapping is complete, every
\* image node is a node of the target, every attribute is mapped as an
\* attribute, and the image of every FK f: A -> B is a path that starts at
\* F(A) and arrives at F(B).
C26_OkOnlyForFunctor ==
    mv_call.out.state = "ok" => IsFunctor(mv_call.mapping, SchemaS, SchemaT)

(***************************************************************************)
(* Path equality in WHERE, and the counts of an EvalResult                 *)
(***************************************************************************)
\* both sides of the path equality resolve, to equal values none of which is Null
EqualAndNotNull(clause, binding, source, schema) ==
    LET v1 == resolve_value(clause.var1, clause.path1, binding, source, schema)
        v2 == resolve_value(clause.var2, clause.path2, binding, source, schema)
    IN  /\ v1.ok /\ v2.ok
        /\ v1.val # VNull /\ v2.val # VNull
        /\ v1.val = v2.val

\* a block whose WHERE clauses are path equalities, at least one
PathEqualBlock(block) ==
    /\ block.where_clauses # <<>>
    /\ \A i \in DOMAIN block.where_clauses : block.where_clauses[i].kind = "PathEqual"

\* C27: a block filtered by path equalities returns, when it evaluates
\* successfully, as many rows as there are tuples for which the two sides of
\* every equality resolve to equal values that are not Null: a tuple with
\* Null on either side, or on both, does not pass.
C27_PathEqualNullRule ==
    ev_pc = "run" =>
        \A b \in DOMAIN ev_query :
            PathEqualBlock(ev_query[b]) =>
                LET r == eval_block(ev_query[b], ev_inst, SchemaE,
                                    ev_orders.var_orders[b], ev_orders.row_order)
                IN  r.ok =>
                       r.returned =
                          Cardinality({bd \in BlockBindings(ev_query[b], ev_inst) :
                                          \A i \in DOMAIN ev_query[b].where_clauses :
                                              EqualAndNotNull(ev_query[b].where_clauses[i],
                                                              bd, ev_inst, SchemaE)})

\* count(result, entity)
count(res, entity_name) ==
    IF entity_name \in DOMAIN res.instance THEN EntityLen(res.instance[entity_name]) ELSE 0

RECURSIVE SumCounts(_, _)
SumCounts(res, names) ==
    IF names = {} THEN 0
    ELSE LET n == CHOOSE x \in names : TRUE
         IN  count(res, n) + SumCounts(res, names \ {n})

\* C29: a successful eval_query reports as rows_returned the number of rows
\* its result instance holds, the sum of count over the entities of the
\* result, whatever the number of blocks and their target entities.
C29_ReturnedIsRowsHeld ==
    (ev_pc = "run" /\ ev_plain.state = "ok") =>
        ev_plain.rows_returned = SumCounts(ev_plain, DOMAIN ev_plain.instance)

(***************************************************************************)
(* delta and the validity of instances                                     *)
(***************************************************************************)
\* every row of every entity has a value for each FK of the entity, and the
\* value is the RowId of a row of the FK's target entity
FkTotalAndReferential(inst, schema) ==
    /\ \A node \in schema.nodes : node \in DOMAIN inst
    /\ \A node \in schema.nodes :
          \A row \in EntityRowIds(inst[node]) :
             \A fk \in EdgesOfKind(schema, node, "fk") :
                /\ EntityGetFk(inst[node], row, fk).some
                /\ EntityGetFk(inst[node], row, fk).val
                      \in EntityRowIds(inst[schema.edges[fk].target])

\* m maps every node of the source to a node of the target and every FK
\* e: A -> B of the source to a composable path of FKs of the target, possibly
\* empty, from F(A) to F(B)
NodesAndFksWellTyped(m, source, target) ==
    /\ \A n \in source.nodes :
          n \in DOMAIN m.node_mapping /\ m.node_mapping[n] \in target.nodes
    /\ \A e \in DOMAIN source.edges :
          source.edges[e].kind = "fk" =>
             /\ e \in DOMAIN m.edge_mapping
             /\ m.edge_mapping[e].kind = "FkToPath"
             /\ m.edge_mapping[e].path.start = m.node_mapping[source.edges[e].source]
             /\ ArrivesAt(m.edge_mapping[e].path.start, m.edge_mapping[e].path.edges,
                          target, 1) = m.node_mapping[source.edges[e].target]

\* C30: when delta is applied to an instance of T in which every FK is total
\* and referentially intact, along a mapping that is well typed on nodes and
\* FKs, every row of the result has a value for each FK of its entity and
\* that value is the RowId of a row of the FK's target entity in the result.
C30_DeltaPreservesValidity ==
    (/\ mig_delta_in # NoInstance
     /\ FkTotalAndReferential(mig_delta_in, SchemaT)
     /\ NodesAndFksWellTyped(mig_F, MigSource, SchemaT)) =>
        FkTotalAndReferential(mig_delta, MigSource)

\* C30 witness: delta applied to a valid instance of T with rows in P and Q,
\* along a mapping that sends e to a path of two FKs; the result has a row of
\* A whose e is a row of C.
C30_TwoEdgePathFollowed ==
    /\ mig_delta_in # NoInstance
    /\ FkTotalAndReferential(mig_delta_in, SchemaT)
    /\ NodesAndFksWellTyped(mig_F, MigSource, SchemaT)
    /\ Len(mig_F.edge_mapping["e"].path.edges) = 2
    /\ \E row \in EntityRowIds(mig_delta["A"]) :
          /\ EntityGetFk(mig_delta["A"], row, "e").some
          /\ EntityGetFk(mig_delta["A"], row, "e").val \in EntityRowIds(mig_delta["C"])

\* C30 witness: the same along a mapping that sends e to an identity path.
C30_IdentityPathFollowed ==
    /\ mig_delta_in # NoInstance
    /\ FkTotalAndReferential(mig_delta_in, SchemaT)
    /\ NodesAndFksWellTyped(mig_F, MigSource, SchemaT)
    /\ mig_F.edge_mapping["e"].path.edges = <<>>
    /\ \E row \in EntityRowIds(mig_delta["A"]) :
          EntityGetFk(mig_delta["A"], row, "e") = Some(row)

====
